---- MODULE Spec2Model ----
(***************************************************************************)
(* A model of the phys-js step engine: the world (bodies, removal queue),  *)
(* the region-hashed broad phase (Grid), the per-body integrators and the  *)
(* narrow phase with positional correction.                                *)
(*                                                                         *)
(* Lengths are kept in thousandths of a point and times in milliseconds,   *)
(* so that gravity (0.001 points/ms^2) and forces (points/s divided by     *)
(* 1000) are whole numbers; JavaScript's doubles are modelled by exact     *)
(* arithmetic on these fixed-point values.                                 *)
(***************************************************************************)
EXTENDS Integers, Sequences, FiniteSets, TLC

(***************************************************************************)
(* Bounds of the model                                                     *)
(***************************************************************************)
\* at most this many bodies are ever created (per world)
MaxBodies == 2
\* at most this many calls of the host after the factory calls (input calls
\* and calls of World.update)
MaxOps == 4
\* at most this many calls of update and updateCollision on a lone BOUNCE body
MaxCalls == 6
\* two worlds given the same calls: at most this many bodies in each, and at
\* most this many calls of the host after the factory calls
MaxTwinBodies == 3
MaxTwinOps == 2
\* the largest delta given to World.update when its sub-steps are counted,
\* in ms, and the number of such calls
MaxDelta == 100
MaxStepCalls == 2
\* the loop counter of World.update is a double: below -2^53 a decrement is
\* absorbed.  The model absorbs it below -MaxSpin.  At most MaxLoopCalls
\* calls of World.update are taken pass by pass.
MaxSpin == 4
MaxLoopCalls == 2
\* calls of World.update in the scenario of the floor that catches the player
MaxCatchCalls == 50
\* calls of World.update in the scenario of the bullet shot at the static
MaxShotCalls == 4
\* calls of World.update in the scenario of the bounce body that settles
MaxSettleCalls == 130
\* calls of the host in the scenario of the jump
MaxJumpCalls == 34
\* calls of World.update in the scenario of the two bullets
MaxVolleyCalls == 3
\* calls of the host in the scenario of the air control
MaxAirCalls == 6
\* calls of World.update in the scenario of the small static
MaxResolveCalls == 2

(***************************************************************************)
(* Program constants                                                       *)
(***************************************************************************)
\* thousandths of a point per point: forces arrive in points/s and are
\* divided by 1000 (points/ms), so a force of f points/s is f units/ms
Milli == 1000
STATIC == 0
PLAYER == 1
BOUNCE == 2
BULLET == 3
BOUNCE_FIXES_LIMIT_X == 3
BOUNCE_FIXES_LIMIT_Y == 3
regionsShift == 9
maxDelta == 33
\* World.gravity = 0.001 points/ms^2 = 1 unit/ms^2
gravity == 1
\* the value false of jumpTimer, fallTimer and longOfLife
False == -1

(***************************************************************************)
(* Arithmetic helpers                                                      *)
(***************************************************************************)
Abs(n) == IF n < 0 THEN -n ELSE n
Sign(n) == IF n > 0 THEN 1 ELSE IF n < 0 THEN -1 ELSE 0
Min(a, b) == IF a < b THEN a ELSE b
Max(a, b) == IF a > b THEN a ELSE b

RECURSIVE Gcd(_, _)
Gcd(a, b) == IF b = 0 THEN Abs(a) ELSE Gcd(b, a % Abs(b))

\* Math.sqrt on the values the model feeds it (perfect squares); the floor
\* of the root otherwise
RECURSIVE SqrtIn(_, _, _)
SqrtIn(n, lo, hi) ==
  IF lo = hi THEN lo
  ELSE LET mid == (lo + hi + 1) \div 2
       IN  IF mid * mid <= n THEN SqrtIn(n, mid, hi) ELSE SqrtIn(n, lo, mid - 1)
Sqrt(n) == SqrtIn(n, 0, Min(n, 46340))

\* indexOf on an array: 0 stands for -1, positions count from 1
IndexOf(s, e) ==
  IF \E i \in 1..Len(s) : s[i] = e
  THEN CHOOSE i \in 1..Len(s) : s[i] = e /\ \A j \in 1..(i - 1) : s[j] # e
  ELSE 0

\* splice(index, 1)
Splice(s, i) == SubSeq(s, 1, i - 1) \o SubSeq(s, i + 1, Len(s))

Contains(s, e) == \E i \in 1..Len(s) : s[i] = e

(***************************************************************************)
(* grid.js: regions, pair ids, the collision filter                        *)
(***************************************************************************)
\* ToInt32 of a coordinate, applied by >> before shifting: the fraction is
\* dropped towards zero
ToInt32(v) == IF v >= 0 THEN v \div Milli ELSE -((-v) \div Milli)

\* n >> regionsShift on a 32-bit integer: floor(n / 2^regionsShift)
ShiftRight(n) == n \div (2 ^ regionsShift)

getRegions(bounds) ==
  LET sx == ShiftRight(ToInt32(bounds.min.x))
      sy == ShiftRight(ToInt32(bounds.min.y))
      ex == ShiftRight(ToInt32(bounds.max.x))
      ey == ShiftRight(ToInt32(bounds.max.y))
      w  == IF ex >= sx THEN ex - sx + 1 ELSE 0
      h  == IF ey >= sy THEN ey - sy + 1 ELSE 0
  IN  SubSeq([k \in 1..(w * h) |-> <<sx + ((k - 1) % w), sy + ((k - 1) \div w)>>],
             1, w * h)

\* regions.join(','): the region keys written one after the other
RECURSIVE Join(_)
Join(regions) ==
  IF regions = <<>> THEN <<>>
  ELSE <<regions[1][1], regions[1][2]>> \o Join(Tail(regions))

getPairId(bodyAId, bodyBId) ==
  IF bodyAId < bodyBId THEN <<bodyAId, bodyBId>> ELSE <<bodyBId, bodyAId>>

\* canCollide without the test of equal types
canCollideAnyType(bodyA, bodyB) ==
  IF bodyA.type = BOUNCE /\ bodyB.type # STATIC THEN FALSE
  ELSE IF bodyB.type = BOUNCE /\ bodyA.type # STATIC THEN FALSE
  ELSE IF bodyA.type = BULLET /\ bodyA.ownerId = bodyB.id THEN FALSE
  ELSE IF bodyB.type = BULLET /\ bodyB.ownerId = bodyA.id THEN FALSE
  ELSE TRUE

\* canCollide comparing a bullet's ownerId with the bullet's own id
canCollideOwnId(bodyA, bodyB) ==
  IF bodyA.type = bodyB.type THEN FALSE
  ELSE IF bodyA.type = BOUNCE /\ bodyB.type # STATIC THEN FALSE
  ELSE IF bodyB.type = BOUNCE /\ bodyA.type # STATIC THEN FALSE
  ELSE IF bodyA.type = BULLET /\ bodyA.ownerId = bodyA.id THEN FALSE
  ELSE IF bodyB.type = BULLET /\ bodyB.ownerId = bodyB.id THEN FALSE
  ELSE TRUE

\* canCollide that lets a BOUNCE body meet a bullet
canCollideBounceBullet(bodyA, bodyB) ==
  IF bodyA.type = bodyB.type THEN FALSE
  ELSE IF bodyA.type = BOUNCE /\ bodyB.type \notin {STATIC, BULLET} THEN FALSE
  ELSE IF bodyB.type = BOUNCE /\ bodyA.type \notin {STATIC, BULLET} THEN FALSE
  ELSE IF bodyA.type = BULLET /\ bodyA.ownerId = bodyB.id THEN FALSE
  ELSE IF bodyB.type = BULLET /\ bodyB.ownerId = bodyA.id THEN FALSE
  ELSE TRUE

canCollide(bodyA, bodyB) ==
  IF bodyA.type = bodyB.type THEN FALSE
  ELSE IF bodyA.type = BOUNCE /\ bodyB.type # STATIC THEN FALSE
  ELSE IF bodyB.type = BOUNCE /\ bodyA.type # STATIC THEN FALSE
  ELSE IF bodyA.type = BULLET /\ bodyA.ownerId = bodyB.id THEN FALSE
  ELSE IF bodyB.type = BULLET /\ bodyB.ownerId = bodyA.id THEN FALSE
  ELSE TRUE

(***************************************************************************)
(* A world W is a record                                                   *)
(*   body           id -> body object (every object created in the world,  *)
(*                  also those no longer in W.bodies: the host keeps them) *)
(*   bodies         world.bodies, a sequence of ids                        *)
(*   bodiesToRemove world.bodiesToRemove, a sequence of ids                *)
(*   hash           broadphase.hash, region key -> sequence of ids         *)
(*   pairs          broadphase.pairs in key insertion order, a sequence of *)
(*                  [id, bodyA, bodyB, count]                              *)
(***************************************************************************)
PairIndex(pairs, pairId) ==
  IF \E i \in 1..Len(pairs) : pairs[i].id = pairId
  THEN CHOOSE i \in 1..Len(pairs) : pairs[i].id = pairId
  ELSE 0

\* if(this.hash[region]) this.hash[region].push(body); else this.hash[region] = [ body ]
HashPush(hash, region, id) ==
  IF region \in DOMAIN hash
  THEN [hash EXCEPT ![region] = Append(@, id)]
  ELSE hash @@ (region :> <<id>>)

\* HashRemove with the test index > 0 in place of index > -1
HashRemoveAfterFirst(hash, region, id) ==
  IF region \in DOMAIN hash /\ IndexOf(hash[region], id) > 1
  THEN [hash EXCEPT ![region] = Splice(hash[region], IndexOf(hash[region], id))]
  ELSE hash

\* const index = hash.indexOf(body); if(index > -1) hash.splice(index, 1)
HashRemove(hash, region, id) ==
  IF region \in DOMAIN hash /\ IndexOf(hash[region], id) > 0
  THEN [hash EXCEPT ![region] = Splice(hash[region], IndexOf(hash[region], id))]
  ELSE hash

\* the body of the inner loop of Grid._addPairs for one other body
AddPairWith(W, pairs, id, other) ==
  IF other = id THEN pairs
  ELSE IF ~canCollide(W.body[id], W.body[other]) THEN pairs
  ELSE LET pairId == getPairId(id, other)
           i == PairIndex(pairs, pairId)
       IN  IF i > 0 THEN [pairs EXCEPT ![i].count = @ + 1]
           ELSE Append(pairs, [id |-> pairId, bodyA |-> id, bodyB |-> other, count |-> 1])

RECURSIVE AddPairsIn(_, _, _, _, _)
AddPairsIn(W, pairs, id, regionBodies, j) ==
  IF j > Len(regionBodies) THEN pairs
  ELSE AddPairsIn(W, AddPairWith(W, pairs, id, regionBodies[j]), id, regionBodies, j + 1)

RECURSIVE AddPairsFrom(_, _, _, _, _)
AddPairsFrom(W, pairs, id, regions, i) ==
  IF i > Len(regions) THEN pairs
  ELSE AddPairsFrom(W, AddPairsIn(W, pairs, id, W.hash[regions[i]], 1), id, regions, i + 1)

\* Grid._addPairs(body, regions)
addPairs(W, id, regions) ==
  [W EXCEPT !.pairs = AddPairsFrom(W, W.pairs, id, regions, 1)]

\* RemovePairWith that decrements the counter whatever its value
RemovePairWithDecrement(pairs, id, other) ==
  LET pairId == getPairId(id, other)
      i == PairIndex(pairs, pairId)
  IN  IF i > 0 THEN [pairs EXCEPT ![i].count = @ - 1] ELSE pairs

\* RemovePairWith that deletes the pair whatever its counter
RemovePairWithDelete(pairs, id, other) ==
  LET pairId == getPairId(id, other)
      i == PairIndex(pairs, pairId)
  IN  IF i > 0 THEN Splice(pairs, i) ELSE pairs

\* the body of the inner loop of Grid._removePairs for one other body
RemovePairWith(pairs, id, other) ==
  LET pairId == getPairId(id, other)
      i == PairIndex(pairs, pairId)
  IN  IF i > 0
      THEN IF pairs[i].count = 1 THEN Splice(pairs, i)
           ELSE [pairs EXCEPT ![i].count = @ - 1]
      ELSE pairs

RECURSIVE RemovePairsIn(_, _, _, _)
RemovePairsIn(pairs, id, regionBodies, j) ==
  IF j > Len(regionBodies) THEN pairs
  ELSE RemovePairsIn(RemovePairWith(pairs, id, regionBodies[j]), id, regionBodies, j + 1)

RECURSIVE RemovePairsFrom(_, _, _, _, _)
RemovePairsFrom(W, pairs, id, regions, i) ==
  IF i > Len(regions) THEN pairs
  ELSE RemovePairsFrom(W, RemovePairsIn(pairs, id, W.hash[regions[i]], 1), id, regions, i + 1)

\* Grid._removePairs(body, regions)
removePairs(W, id, regions) ==
  [W EXCEPT !.pairs = RemovePairsFrom(W, W.pairs, id, regions, 1)]

RECURSIVE HashPushAll(_, _, _, _)
HashPushAll(hash, regions, id, i) ==
  IF i > Len(regions) THEN hash
  ELSE HashPushAll(HashPush(hash, regions[i], id), regions, id, i + 1)

RECURSIVE HashRemoveAll(_, _, _, _)
HashRemoveAll(hash, regions, id, i) ==
  IF i > Len(regions) THEN hash
  ELSE HashRemoveAll(HashRemove(hash, regions[i], id), regions, id, i + 1)

\* Grid._addBody(body)
addBody(W, id) ==
  LET regions == getRegions(W.body[id].bounds)
      W1 == [W EXCEPT !.body[id].regions = regions,
                      !.body[id].hasRegions = TRUE,
                      !.body[id].regionsString =
                         IF W.body[id].type # STATIC THEN Join(regions) ELSE @,
                      !.hash = HashPushAll(W.hash, regions, id, 1)]
  IN  addPairs(W1, id, regions)

\* Grid._updateBody(body, newRegions, regionsString)
updateBody(W, id, newRegions, regionsString) ==
  LET oldRegions == W.body[id].regions
      regionsToRemove == SelectSeq(oldRegions, LAMBDA value : ~Contains(newRegions, value))
      regionsToAdd == SelectSeq(newRegions, LAMBDA value : ~Contains(oldRegions, value))
      W1 == IF Len(regionsToRemove) > 0
            THEN removePairs([W EXCEPT !.hash = HashRemoveAll(W.hash, regionsToRemove, id, 1)],
                             id, regionsToRemove)
            ELSE W
      W2 == IF Len(regionsToAdd) > 0
            THEN addPairs([W1 EXCEPT !.hash = HashPushAll(W1.hash, regionsToAdd, id, 1)],
                          id, regionsToAdd)
            ELSE W1
  IN  [W2 EXCEPT !.body[id].regions = newRegions,
                 !.body[id].regionsString = regionsString]

\* Grid.removeBody without the call of _removePairs
gridRemoveBodyKeepPairs(W, id) ==
  IF ~W.body[id].hasRegions THEN W
  ELSE LET regions == W.body[id].regions
           W1 == [W EXCEPT !.hash = HashRemoveAll(W.hash, regions, id, 1)]
       IN  [W1 EXCEPT !.body[id].regions = <<>>,
                      !.body[id].hasRegions = FALSE,
                      !.body[id].regionsString = <<>>]

\* Grid.removeBody(body)
gridRemoveBody(W, id) ==
  IF ~W.body[id].hasRegions THEN W
  ELSE LET regions == W.body[id].regions
           W1 == removePairs([W EXCEPT !.hash = HashRemoveAll(W.hash, regions, id, 1)],
                             id, regions)
       IN  [W1 EXCEPT !.body[id].regions = <<>>,
                      !.body[id].hasRegions = FALSE,
                      !.body[id].regionsString = <<>>]

\* the body of the loop of Grid.update that registers the new bodies only
gridUpdateOneNew(W, id) ==
  IF ~W.body[id].hasRegions THEN addBody(W, id) ELSE W

\* the body of the loop of Grid.update for one body
gridUpdateOne(W, id) ==
  LET body == W.body[id]
  IN  IF ~body.hasRegions THEN addBody(W, id)
      ELSE IF body.type = STATIC THEN W
      ELSE IF body.isUpdated
      THEN LET W1 == IF body.type # BULLET
                     THEN [W EXCEPT !.body[id].isUpdated = FALSE] ELSE W
               regions == getRegions(body.bounds)
               regionsString == Join(regions)
           IN  IF regionsString # body.regionsString
               THEN updateBody(W1, id, regions, regionsString)
               ELSE W1
      ELSE W

RECURSIVE GridUpdateFrom(_, _, _)
GridUpdateFrom(W, ids, i) ==
  IF i > Len(ids) THEN W
  ELSE GridUpdateFrom(gridUpdateOne(W, ids[i]), ids, i + 1)

\* Grid.update(bodies)
gridUpdate(W) == GridUpdateFrom(W, W.bodies, 1)

(***************************************************************************)
(* Bodies.  Options are given in points (forces in points/s), as the host  *)
(* gives them; the constructors convert to the model's units.              *)
(***************************************************************************)
\* a length in points as a length in units
P(v) == v * Milli

\* v multiplied by the decimal factor num/den
Scale(v, num, den) == (v * num) \div den

Vec(x, y) == [x |-> x, y |-> y]
Box(minX, minY, maxX, maxY) == [min |-> Vec(minX, minY), max |-> Vec(maxX, maxY)]

\* BodyStatic constructor
BodyStatic(options, id) ==
  LET halfWidth == P(options.width) \div 2
      halfHeight == P(options.height) \div 2
  IN  [ id |-> id, type |-> STATIC,
        position |-> Vec(P(options.x), P(options.y)),
        size |-> [width |-> P(options.width), height |-> P(options.height)],
        isSensor |-> IF options.isSensor THEN TRUE ELSE FALSE,
        bounds |-> Box(-halfWidth + P(options.x), -halfHeight + P(options.y),
                       halfWidth + P(options.x), halfHeight + P(options.y)),
        hasRegions |-> FALSE, regions |-> <<>>, regionsString |-> <<>> ]

\* BodyBullet._updateBounds
bulletUpdateBounds(b) ==
  [b EXCEPT !.bounds = Box(Min(b.position.x, b.prevPosition.x),
                           Min(b.position.y, b.prevPosition.y),
                           Max(b.position.x, b.prevPosition.x),
                           Max(b.position.y, b.prevPosition.y))]

\* the coefficients a, b, c of the bullet's line a*x + b*y + c = 0, divided
\* by their common factor gcd(force.x, force.y): the quotients ab, ba, ca, cb
\* the code stores are the same for every such scaling
LineCoefs(x, y, force) ==
  LET g == Gcd(force.x, force.y)
      fx == IF g = 0 THEN 0 ELSE force.x \div g
      fy == IF g = 0 THEN 0 ELSE force.y \div g
  IN  [a |-> -fy, b |-> fx, c |-> x * fy - y * fx]

\* BodyBullet constructor
BodyBullet(options, id) ==
  LET force == Vec(P(options.force.x) \div 1000, P(options.force.y) \div 1000)
  IN  bulletUpdateBounds(
      [ id |-> id, type |-> BULLET,
        position |-> Vec(P(options.x), P(options.y)),
        prevPosition |-> Vec(P(options.x), P(options.y)),
        force |-> force,
        ownerId |-> options.ownerId,
        isUpdated |-> TRUE,
        isSensor |-> FALSE,
        longOfLife |-> IF options.longOfLife # 0 THEN P(options.longOfLife) ELSE False,
        long |-> 0,
        equationCoefs |-> LineCoefs(P(options.x), P(options.y), force),
        bounds |-> Box(0, 0, 0, 0),
        hasRegions |-> FALSE, regions |-> <<>>, regionsString |-> <<>> ])

\* Math.sqrt(moveX * moveX + moveY * moveY), taken on the reduced direction
\* so that the squares stay small
Hypot(moveX, moveY) ==
  LET g == Gcd(moveX, moveY)
  IN  IF g = 0 THEN 0
      ELSE g * Sqrt((moveX \div g) * (moveX \div g) + (moveY \div g) * (moveY \div g))

\* BodyBullet.update: the move of the bullet and the length it has flown
bulletMove(b, delta) ==
  LET moveX == b.force.x * delta
      moveY == b.force.y * delta
  IN  [b EXCEPT !.prevPosition = b.position,
                !.position = Vec(b.position.x + moveX, b.position.y + moveY),
                !.long = IF b.longOfLife # False THEN @ + Hypot(moveX, moveY) ELSE @]

\* the end of BodyBullet.update for a bullet that never ends its life
bulletMovedUnending(W, id, b) ==
  [W EXCEPT !.body[id] = bulletUpdateBounds(b)]

\* BodyBullet.update: the end of the bullet's life, or its new bounds;
\* b is the bullet moved
bulletMoved(W, id, b) ==
  IF b.longOfLife # False /\ b.long >= b.longOfLife
  THEN [W EXCEPT !.body[id] = b, !.bodiesToRemove = Append(@, id)]
  ELSE [W EXCEPT !.body[id] = bulletUpdateBounds(b)]

\* BodyBullet.update(delta, bodiesToRemove)
bulletUpdate(W, id, delta) == bulletMoved(W, id, bulletMove(W.body[id], delta))

\* BodyBounce._updateBounds, BodyPlayer._updateBounds
updateBounds(b) ==
  [b EXCEPT !.bounds = Box(b.normalBounds.min.x + b.position.x,
                           b.normalBounds.min.y + b.position.y,
                           b.normalBounds.max.x + b.position.x,
                           b.normalBounds.max.y + b.position.y)]

\* BodyBounce constructor
BodyBounce(options, id) ==
  LET halfWidth == P(options.width) \div 2
      halfHeight == P(options.height) \div 2
      force == Vec(P(options.force.x) \div 1000, P(options.force.y) \div 1000)
  IN  updateBounds(
      [ id |-> id, type |-> BOUNCE,
        position |-> Vec(P(options.x), P(options.y)),
        size |-> [width |-> P(options.width), height |-> P(options.height)],
        force |-> force,
        gravity |-> gravity,
        reboundSpeed |-> IF force.y > 0 THEN -force.y ELSE force.y,
        moveDirectionY |-> 0,
        isUpdated |-> FALSE,
        isSensor |-> FALSE,
        countCollisionsFix |-> Vec(0, 0),
        normalBounds |-> Box(-halfWidth, -halfHeight, halfWidth, halfHeight),
        bounds |-> Box(0, 0, 0, 0),
        hasRegions |-> FALSE, regions |-> <<>>, regionsString |-> <<>> ])

\* BodyBounce.setPosition, BodyPlayer.setPosition
setPosition(b, position) ==
  [b EXCEPT !.position = Vec(position.x, position.y), !.isUpdated = TRUE]

\* update that never refreshes the bounds
updatedBoundsNever(b) == b

\* if(this.isUpdated) { this.isUpdated = true; this._updateBounds(); }
updatedBounds(b) == IF b.isUpdated THEN updateBounds(b) ELSE b

\* the move along X of BodyBounce.update without the test of the counter
bounceUpdateXUnpinned(b, delta) ==
  [b EXCEPT !.position.x = @ + b.force.x * delta, !.isUpdated = TRUE]

\* BodyBounce.update: the move along X
bounceUpdateX(b, delta) ==
  IF b.countCollisionsFix.x < BOUNCE_FIXES_LIMIT_X
  THEN [b EXCEPT !.position.x = @ + b.force.x * delta, !.isUpdated = TRUE]
  ELSE b

\* BodyBounce.update: the move along Y
bounceUpdateY(b, delta) ==
  IF b.countCollisionsFix.y < BOUNCE_FIXES_LIMIT_Y
  THEN LET forceY == b.force.y + b.gravity * delta
       IN  [b EXCEPT !.position.y = @ + b.force.y * delta,
                     !.force.y = forceY,
                     !.moveDirectionY = IF forceY > 0 THEN 1 ELSE -1,
                     !.isUpdated = TRUE]
  ELSE b

\* BodyBounce.update(delta)
bounceUpdate(b, delta) ==
  updatedBounds(bounceUpdateY(bounceUpdateX(b, delta), delta))

\* bounceCollisionX with the counter also advanced by the contact that finds
\* it at the limit
bounceCollisionXCounting(b, correction) ==
  IF b.countCollisionsFix.x <= BOUNCE_FIXES_LIMIT_X
  THEN IF b.countCollisionsFix.x = BOUNCE_FIXES_LIMIT_X
       THEN [b EXCEPT !.force.x = 0, !.countCollisionsFix.x = @ + 1]
       ELSE LET scaled == Scale(b.force.x, 5 - b.countCollisionsFix.x, 10)
                forceX == IF correction.x # 0 /\ Sign(correction.x) # Sign(scaled)
                          THEN -scaled ELSE scaled
            IN  [b EXCEPT !.force.x = forceX, !.countCollisionsFix.x = @ + 1]
  ELSE b

\* bounceCollisionX with the test of the limit as > in place of ===
bounceCollisionXPastLimit(b, correction) ==
  IF b.countCollisionsFix.x <= BOUNCE_FIXES_LIMIT_X
  THEN IF b.countCollisionsFix.x > BOUNCE_FIXES_LIMIT_X
       THEN [b EXCEPT !.force.x = 0]
       ELSE LET scaled == Scale(b.force.x, 5 - b.countCollisionsFix.x, 10)
                forceX == IF correction.x # 0 /\ Sign(correction.x) # Sign(scaled)
                          THEN -scaled ELSE scaled
            IN  [b EXCEPT !.force.x = forceX, !.countCollisionsFix.x = @ + 1]
  ELSE b

\* the X half of BodyBounce.updateCollision
bounceCollisionX(b, correction) ==
  IF b.countCollisionsFix.x <= BOUNCE_FIXES_LIMIT_X
  THEN IF b.countCollisionsFix.x = BOUNCE_FIXES_LIMIT_X
       THEN [b EXCEPT !.force.x = 0]
       ELSE LET scaled == Scale(b.force.x, 5 - b.countCollisionsFix.x, 10)
                forceX == IF correction.x # 0 /\ Sign(correction.x) # Sign(scaled)
                          THEN -scaled ELSE scaled
            IN  [b EXCEPT !.force.x = forceX, !.countCollisionsFix.x = @ + 1]
  ELSE b

\* the Y half of BodyBounce.updateCollision
bounceCollisionY(b, correction) ==
  IF correction.y # 0 /\ b.countCollisionsFix.y <= BOUNCE_FIXES_LIMIT_Y
  THEN LET b1 == IF correction.y < 0
                 THEN IF b.countCollisionsFix.y = BOUNCE_FIXES_LIMIT_Y
                      THEN [b EXCEPT !.force.y = 0, !.moveDirectionY = 0]
                      ELSE LET rebound == Scale(b.reboundSpeed,
                                                10 - 3 * b.countCollisionsFix.y, 20)
                           IN  [b EXCEPT !.reboundSpeed = rebound,
                                         !.force.y = rebound,
                                         !.countCollisionsFix.y = @ + 1]
                 ELSE b
       IN  IF correction.y > 0 THEN [b1 EXCEPT !.force.y = -@] ELSE b1
  ELSE b

\* BodyBounce.updateCollision(correction)
bounceUpdateCollision(b, correction) ==
  bounceCollisionY(bounceCollisionX(b, correction), correction)

\* BodyPlayer constructor
BodyPlayer(options, id) ==
  LET halfWidth == P(options.width) \div 2
      halfHeight == P(options.height) \div 2
      jumpDistance == IF options.jumpDistance # 0 THEN P(options.jumpDistance)
                      ELSE Scale(P(options.height), 11, 10)
  IN  updateBounds(
      [ id |-> id, type |-> PLAYER,
        position |-> Vec(P(options.x), P(options.y)),
        size |-> [width |-> P(options.width), height |-> P(options.height)],
        moveSpeed |-> IF options.moveSpeed # 0 THEN P(options.moveSpeed) \div 1000
                      ELSE Scale(Milli, 4, 10),
        jumpDistance |-> jumpDistance,
        gravity |-> gravity,
        jumpCoef |-> Sqrt(jumpDistance \div gravity),
        lastGroundPositionY |-> P(options.y),
        forceX |-> 0,
        moveDirectionY |-> 0,
        isOnGround |-> FALSE,
        jumpInitDir |-> 0,
        isUpdated |-> FALSE,
        isSensor |-> FALSE,
        jumpTimer |-> False,
        fallTimer |-> False,
        normalBounds |-> Box(-halfWidth, -halfHeight, halfWidth, halfHeight),
        bounds |-> Box(0, 0, 0, 0),
        hasRegions |-> FALSE, regions |-> <<>>, regionsString |-> <<>> ])

\* BodyPlayer.update: the horizontal move, and the step off the ground
playerUpdateMove(b, delta) ==
  IF b.forceX = 0 THEN b
  ELSE IF b.isOnGround
  THEN [b EXCEPT !.isUpdated = TRUE,
                 !.position.x = @ + b.forceX * delta,
                 !.position.y = @ + P(1),
                 !.isOnGround = FALSE]
  ELSE [b EXCEPT !.isUpdated = TRUE,
                 !.position.x = @ + b.forceX * delta]

\* the jump of BodyPlayer.update with the parabola not shifted by jumpCoef
playerUpdateJumpNoCoef(b, delta) ==
  IF b.jumpTimer # False
  THEN LET t == b.jumpTimer + delta
       IN  [b EXCEPT !.jumpTimer = t,
                     !.position.y = b.lastGroundPositionY
                        + b.gravity * t * t - b.jumpDistance,
                     !.moveDirectionY = IF t - b.jumpCoef > 0 THEN 1 ELSE -1,
                     !.isUpdated = TRUE]
  ELSE b

\* BodyPlayer.update: the jump
playerUpdateJump(b, delta) ==
  IF b.jumpTimer # False
  THEN LET t == b.jumpTimer + delta
       IN  [b EXCEPT !.jumpTimer = t,
                     !.position.y = b.lastGroundPositionY
                        + b.gravity * (t - b.jumpCoef) * (t - b.jumpCoef)
                        - b.jumpDistance,
                     !.moveDirectionY = IF t - b.jumpCoef > 0 THEN 1 ELSE -1,
                     !.isUpdated = TRUE]
  ELSE b

\* BodyPlayer.update: the fall
playerUpdateFall(b, delta) ==
  IF ~b.isOnGround /\ b.fallTimer # False
  THEN LET t == b.fallTimer + delta
       IN  [b EXCEPT !.fallTimer = t,
                     !.position.y = b.lastGroundPositionY + b.gravity * t * t,
                     !.moveDirectionY = 1,
                     !.isUpdated = TRUE]
  ELSE b

\* BodyPlayer.update(delta)
playerUpdate(b, delta) ==
  updatedBounds(playerUpdateFall(playerUpdateJump(
    [playerUpdateMove(b, delta) EXCEPT !.moveDirectionY = 0], delta), delta))

\* BodyPlayer.updateCollision that leaves the timers running on landing
playerUpdateCollisionKeepTimers(b, correction) ==
  LET b1 == IF correction.x # 0 THEN [b EXCEPT !.jumpInitDir = 0] ELSE b
      b2 == IF correction.y < 0
            THEN [b1 EXCEPT !.isOnGround = TRUE, !.jumpInitDir = 0]
            ELSE b1
  IN  IF correction.y > 0
      THEN [b2 EXCEPT !.jumpTimer = False, !.jumpInitDir = 0]
      ELSE b2

\* BodyPlayer.updateCollision(correction)
playerUpdateCollision(b, correction) ==
  LET b1 == IF correction.x # 0 THEN [b EXCEPT !.jumpInitDir = 0] ELSE b
      b2 == IF correction.y < 0
            THEN [b1 EXCEPT !.isOnGround = TRUE, !.jumpInitDir = 0,
                            !.jumpTimer = False, !.fallTimer = False]
            ELSE b1
  IN  IF correction.y > 0
      THEN [b2 EXCEPT !.jumpTimer = False, !.jumpInitDir = 0]
      ELSE b2

\* BodyPlayer.move that keeps the full speed in the air
moveFullInAir(b, dir) ==
  LET forceX == b.moveSpeed * dir
  IN  IF ~b.isOnGround /\ dir # b.jumpInitDir
      THEN [b EXCEPT !.jumpInitDir = 0, !.forceX = forceX]
      ELSE [b EXCEPT !.forceX = forceX]

\* BodyPlayer.move(dir)
move(b, dir) ==
  LET forceX == b.moveSpeed * dir
  IN  IF ~b.isOnGround /\ dir # b.jumpInitDir
      THEN [b EXCEPT !.jumpInitDir = 0, !.forceX = forceX \div 2]
      ELSE [b EXCEPT !.forceX = forceX]

\* BodyPlayer.stop()
stop(b) == [b EXCEPT !.forceX = 0]

\* BodyPlayer.jump() without the test of isOnGround
jumpAnywhere(b) ==
  [b EXCEPT !.jumpTimer = 0,
            !.lastGroundPositionY = b.position.y,
            !.jumpInitDir = IF b.forceX > 0 THEN 1
                            ELSE IF b.forceX < 0 THEN -1 ELSE @,
            !.isOnGround = FALSE]

\* BodyPlayer.jump()
jump(b) ==
  IF ~b.isOnGround THEN b
  ELSE [b EXCEPT !.jumpTimer = 0,
                 !.lastGroundPositionY = b.position.y,
                 !.jumpInitDir = IF b.forceX > 0 THEN 1
                                 ELSE IF b.forceX < 0 THEN -1 ELSE @,
                 !.isOnGround = FALSE]

(***************************************************************************)
(* engine.js                                                               *)
(***************************************************************************)
\* isOutOfRegion with <= and >= in place of < and >
isOutOfRegionOrOnEdge(vector, bounds) ==
  \/ vector.x <= bounds.min.x
  \/ vector.x >= bounds.max.x
  \/ vector.y <= bounds.min.y
  \/ vector.y >= bounds.max.y

isOutOfRegion(vector, bounds) ==
  \/ vector.x < bounds.min.x
  \/ vector.x > bounds.max.x
  \/ vector.y < bounds.min.y
  \/ vector.y > bounds.max.y

getIntersection(boundsA, boundsB) ==
  LET maxMinX == Max(boundsA.min.x, boundsB.min.x)
      minMaxX == Min(boundsA.max.x, boundsB.max.x)
      maxMinY == Max(boundsA.min.y, boundsB.min.y)
      minMaxY == Min(boundsA.max.y, boundsB.max.y)
  IN  [width |-> minMaxX - maxMinX, height |-> minMaxY - maxMinY]

\* a quotient n/d of whole numbers, d > 0, in lowest terms
Rat(n, d) ==
  LET g == Gcd(n, d)
      s == IF d < 0 THEN -1 ELSE 1
  IN  [n |-> (s * n) \div g, d |-> (s * d) \div g]

\* hitResult before the first probe: halfSumm = Infinity, target = null
\* (target 0: ids start at 1)
NoHit == [point |-> Vec(Rat(0, 1), Rat(0, 1)), halfSumm |-> Rat(0, 1), target |-> 0]

\* handlingLineIntersect that keeps the farthest point in place of the
\* nearest
handlingLineIntersectFarthest(input, p, q, c, minOutputValue, maxOutputValue, prevInput, prevOutput, inputAxis, target, result) ==
  IF q = 0 THEN result
  ELSE LET s == IF q < 0 THEN -1 ELSE 1
           den == s * q
           num == s * (-p * input - c)
       IN  IF num <= minOutputValue * den \/ num >= maxOutputValue * den THEN result
           ELSE LET halfSumm == Rat(Abs(num - prevOutput * den)
                                      + Abs(input - prevInput) * den, den)
                    more == \/ result.target = 0
                            \/ halfSumm.n * result.halfSumm.d
                                 > result.halfSumm.n * halfSumm.d
                IN  IF more
                    THEN [ point |-> IF inputAxis = "x"
                                     THEN Vec(Rat(input, 1), Rat(num, den))
                                     ELSE Vec(Rat(num, den), Rat(input, 1)),
                           halfSumm |-> halfSumm,
                           target |-> target ]
                    ELSE result

\* handlingLineIntersect that also returns at once when the first
\* coefficient is 0, as it is for a bullet that flies along an axis
handlingLineIntersectOblique(input, p, q, c, minOutputValue, maxOutputValue, prevInput, prevOutput, inputAxis, target, result) ==
  IF q = 0 \/ p = 0 THEN result
  ELSE LET s == IF q < 0 THEN -1 ELSE 1
           den == s * q
           num == s * (-p * input - c)
       IN  IF num <= minOutputValue * den \/ num >= maxOutputValue * den THEN result
           ELSE LET halfSumm == Rat(Abs(num - prevOutput * den)
                                      + Abs(input - prevInput) * den, den)
                    less == \/ result.target = 0
                            \/ halfSumm.n * result.halfSumm.d
                                 < result.halfSumm.n * halfSumm.d
                IN  IF less
                    THEN [ point |-> IF inputAxis = "x"
                                     THEN Vec(Rat(input, 1), Rat(num, den))
                                     ELSE Vec(Rat(num, den), Rat(input, 1)),
                           halfSumm |-> halfSumm,
                           target |-> target ]
                    ELSE result

\* handlingLineIntersect.  The quotients a and b the code is given are
\* -(p/q) and c/q of the bullet's line (p, q the two direction coefficients):
\* both are finite exactly when q # 0, and output = -a * input - b is
\* (-p * input - c) / q.
handlingLineIntersect(input, p, q, c, minOutputValue, maxOutputValue, prevInput, prevOutput, inputAxis, target, result) ==
  IF q = 0 THEN result
  ELSE LET s == IF q < 0 THEN -1 ELSE 1
           den == s * q
           num == s * (-p * input - c)
       IN  IF num <= minOutputValue * den \/ num >= maxOutputValue * den THEN result
           ELSE LET halfSumm == Rat(Abs(num - prevOutput * den)
                                      + Abs(input - prevInput) * den, den)
                    less == \/ result.target = 0
                            \/ halfSumm.n * result.halfSumm.d
                                 < result.halfSumm.n * halfSumm.d
                IN  IF less
                    THEN [ point |-> IF inputAxis = "x"
                                     THEN Vec(Rat(input, 1), Rat(num, den))
                                     ELSE Vec(Rat(num, den), Rat(input, 1)),
                           halfSumm |-> halfSumm,
                           target |-> target ]
                    ELSE result

\* body.update(delta, bodiesToRemove)
bodyUpdate(W, id, delta) ==
  IF W.body[id].type = BULLET THEN bulletUpdate(W, id, delta)
  ELSE IF W.body[id].type = BOUNCE
  THEN [W EXCEPT !.body[id] = bounceUpdate(W.body[id], delta)]
  ELSE [W EXCEPT !.body[id] = playerUpdate(W.body[id], delta)]

\* the test of the world's bounds on the body updated; W1 is the world
\* after body.update
outOfWorld(S, W1, id) ==
  IF isOutOfRegion(W1.body[id].position, W1.bounds)
  THEN [ W |-> [W1 EXCEPT !.bodiesToRemove = Append(@, id)],
         sensors |-> Append(S.sensors,
            [kind |-> "isOutWorld", bodyA |-> id, bodyB |-> 0,
             point |-> NoHit.point]) ]
  ELSE [W |-> W1, sensors |-> S.sensors]

\* the body of the loop of updatePositions without the test of the removal
\* queue
updatePositionOneQueued(S, id, delta) ==
  IF S.W.body[id].type = STATIC THEN S
  ELSE outOfWorld(S, bodyUpdate(S.W, id, delta), id)

\* the body of the loop of updatePositions for one body; S = [W, sensors]
updatePositionOne(S, id, delta) ==
  IF S.W.body[id].type = STATIC THEN S
  ELSE IF IndexOf(S.W.bodiesToRemove, id) > 0 THEN S
  ELSE outOfWorld(S, bodyUpdate(S.W, id, delta), id)

RECURSIVE UpdatePositionsFrom(_, _, _, _)
UpdatePositionsFrom(S, ids, delta, i) ==
  IF i > Len(ids) THEN S
  ELSE UpdatePositionsFrom(updatePositionOne(S, ids[i], delta), ids, delta, i + 1)

\* updatePositions(delta, bodies, bodiesToRemove, worldBounds, sensors)
updatePositions(W, delta) ==
  UpdatePositionsFrom([W |-> W, sensors |-> <<>>], W.bodies, delta, 1)

\* removeOne without the test index > -1: splice(-1, 1) takes the last body
removeOneUnguarded(W, id) ==
  LET W1 == gridRemoveBody(W, id)
      index == IndexOf(W1.bodies, id)
  IN  IF index > 0 THEN [W1 EXCEPT !.bodies = Splice(W1.bodies, index)]
      ELSE [W1 EXCEPT !.bodies = SubSeq(W1.bodies, 1, Len(W1.bodies) - 1)]

\* the body of the loop of removeBodies for one queued body
removeOne(W, id) ==
  LET W1 == gridRemoveBody(W, id)
      index == IndexOf(W1.bodies, id)
  IN  IF index > 0 THEN [W1 EXCEPT !.bodies = Splice(W1.bodies, index)] ELSE W1

RECURSIVE RemoveBodiesFrom(_, _, _)
RemoveBodiesFrom(W, queue, i) ==
  IF i > Len(queue) THEN W
  ELSE RemoveBodiesFrom(removeOne(W, queue[i]), queue, i + 1)

\* removeBodies without bodiesToRemove.length = 0
removeBodiesKeepQueue(W) == RemoveBodiesFrom(W, W.bodiesToRemove, 1)

\* removeBodies(bodies, bodiesToRemove, broadphase)
removeBodies(W) ==
  [RemoveBodiesFrom(W, W.bodiesToRemove, 1) EXCEPT !.bodiesToRemove = <<>>]

\* the body of the first loop of detectCollisions with the test of the
\* bullet before the test of the sensor
detectPairBulletFirst(W, D, pair) ==
  LET bodyA == W.body[pair.bodyA]
      bodyB == W.body[pair.bodyB]
      intersection == getIntersection(bodyA.bounds, bodyB.bounds)
  IN  IF intersection.width < 0 \/ intersection.height < 0 THEN D
      ELSE IF bodyA.type = BULLET \/ bodyB.type = BULLET
      THEN LET bodyBullet == IF bodyA.type = BULLET THEN bodyA.id ELSE bodyB.id
               bodyHitted == IF bodyA.type = BULLET THEN bodyB.id ELSE bodyA.id
           IN  [D EXCEPT !.targets =
                  IF bodyBullet \in DOMAIN D.targets
                  THEN [D.targets EXCEPT ![bodyBullet] = Append(@, bodyHitted)]
                  ELSE D.targets @@ (bodyBullet :> <<bodyHitted>>)]
      ELSE IF bodyA.isSensor \/ bodyB.isSensor
      THEN [D EXCEPT !.sensors = Append(@,
              [kind |-> "overlap", bodyA |-> bodyA.id, bodyB |-> bodyB.id,
               point |-> NoHit.point])]
      ELSE [D EXCEPT !.collisions = Append(@,
              [bodyA |-> bodyA.id, bodyB |-> bodyB.id, intersection |-> intersection])]

\* the first loop of detectCollisions for one pair, with touching bodies
\* passed over
detectPairStrict(W, D, pair) ==
  LET bodyA == W.body[pair.bodyA]
      bodyB == W.body[pair.bodyB]
      intersection == getIntersection(bodyA.bounds, bodyB.bounds)
  IN  IF intersection.width <= 0 \/ intersection.height <= 0 THEN D
      ELSE IF bodyA.isSensor \/ bodyB.isSensor
      THEN [D EXCEPT !.sensors = Append(@,
              [kind |-> "overlap", bodyA |-> bodyA.id, bodyB |-> bodyB.id,
               point |-> NoHit.point])]
      ELSE IF bodyA.type = BULLET \/ bodyB.type = BULLET
      THEN LET bodyBullet == IF bodyA.type = BULLET THEN bodyA.id ELSE bodyB.id
               bodyHitted == IF bodyA.type = BULLET THEN bodyB.id ELSE bodyA.id
           IN  [D EXCEPT !.targets =
                  IF bodyBullet \in DOMAIN D.targets
                  THEN [D.targets EXCEPT ![bodyBullet] = Append(@, bodyHitted)]
                  ELSE D.targets @@ (bodyBullet :> <<bodyHitted>>)]
      ELSE [D EXCEPT !.collisions = Append(@,
              [bodyA |-> bodyA.id, bodyB |-> bodyB.id, intersection |-> intersection])]

\* the first loop of detectCollisions for one pair;
\* D = [sensors, targets (bullet id -> struck ids), collisions]
detectPair(W, D, pair) ==
  LET bodyA == W.body[pair.bodyA]
      bodyB == W.body[pair.bodyB]
      intersection == getIntersection(bodyA.bounds, bodyB.bounds)
  IN  IF intersection.width < 0 \/ intersection.height < 0 THEN D
      ELSE IF bodyA.isSensor \/ bodyB.isSensor
      THEN [D EXCEPT !.sensors = Append(@,
              [kind |-> "overlap", bodyA |-> bodyA.id, bodyB |-> bodyB.id,
               point |-> NoHit.point])]
      ELSE IF bodyA.type = BULLET \/ bodyB.type = BULLET
      THEN LET bodyBullet == IF bodyA.type = BULLET THEN bodyA.id ELSE bodyB.id
               bodyHitted == IF bodyA.type = BULLET THEN bodyB.id ELSE bodyA.id
           IN  [D EXCEPT !.targets =
                  IF bodyBullet \in DOMAIN D.targets
                  THEN [D.targets EXCEPT ![bodyBullet] = Append(@, bodyHitted)]
                  ELSE D.targets @@ (bodyBullet :> <<bodyHitted>>)]
      ELSE [D EXCEPT !.collisions = Append(@,
              [bodyA |-> bodyA.id, bodyB |-> bodyB.id, intersection |-> intersection])]

RECURSIVE DetectPairsFrom(_, _, _)
DetectPairsFrom(W, D, i) ==
  IF i > Len(W.pairs) THEN D
  ELSE DetectPairsFrom(W, detectPair(W, D, W.pairs[i]), i + 1)

\* the four probes of one target of a bullet
probeTarget(bullet, target, result) ==
  LET k == bullet.equationCoefs
      r1 == handlingLineIntersect(target.bounds.min.x, k.a, k.b, k.c,
               target.bounds.min.y, target.bounds.max.y,
               bullet.prevPosition.x, bullet.prevPosition.y, "x", target.id, result)
      r2 == handlingLineIntersect(target.bounds.max.x, k.a, k.b, k.c,
               target.bounds.min.y, target.bounds.max.y,
               bullet.prevPosition.x, bullet.prevPosition.y, "x", target.id, r1)
      r3 == handlingLineIntersect(target.bounds.min.y, k.b, k.a, k.c,
               target.bounds.min.x, target.bounds.max.x,
               bullet.prevPosition.y, bullet.prevPosition.x, "y", target.id, r2)
  IN  handlingLineIntersect(target.bounds.max.y, k.b, k.a, k.c,
               target.bounds.min.x, target.bounds.max.x,
               bullet.prevPosition.y, bullet.prevPosition.x, "y", target.id, r3)

RECURSIVE ProbeTargetsFrom(_, _, _, _, _)
ProbeTargetsFrom(W, bullet, targets, result, i) ==
  IF i > Len(targets) THEN result
  ELSE ProbeTargetsFrom(W, bullet, targets,
                        probeTarget(bullet, W.body[targets[i]], result), i + 1)

\* the end of the second loop of detectCollisions with every hit bullet
\* queued
bulletHitAlways(S, bulletId, hitResult) ==
  IF hitResult.target = 0 THEN S
  ELSE [ W |-> [S.W EXCEPT !.bodiesToRemove = Append(@, bulletId)],
         sensors |-> Append(S.sensors,
            [kind |-> "isHit", bodyA |-> bulletId, bodyB |-> hitResult.target,
             point |-> hitResult.point]) ]

\* the end of the second loop of detectCollisions with no bullet queued
bulletHitUnqueued(S, bulletId, hitResult) ==
  IF hitResult.target = 0 THEN S
  ELSE [ W |-> S.W,
         sensors |-> Append(S.sensors,
            [kind |-> "isHit", bodyA |-> bulletId, bodyB |-> hitResult.target,
             point |-> hitResult.point]) ]

\* the end of the second loop of detectCollisions for one bullet, given
\* the nearest hit of its probes; S = [W, sensors]
bulletHit(S, bulletId, hitResult) ==
  IF hitResult.target = 0 THEN S
  ELSE [ W |-> IF \/ S.W.body[bulletId].longOfLife = False
                  \/ S.W.body[hitResult.target].type = STATIC
               THEN [S.W EXCEPT !.bodiesToRemove = Append(@, bulletId)]
               ELSE S.W,
         sensors |-> Append(S.sensors,
            [kind |-> "isHit", bodyA |-> bulletId, bodyB |-> hitResult.target,
             point |-> hitResult.point]) ]

\* the second loop of detectCollisions for one bullet; S = [W, sensors]
detectBullet(S, bulletId, targets) ==
  bulletHit(S, bulletId,
            ProbeTargetsFrom(S.W, S.W.body[bulletId], targets, NoHit, 1))

\* the decimal digits of a key
RECURSIVE Digits(_)
Digits(n) == IF n < 10 THEN <<n>> ELSE Append(Digits(n \div 10), n % 10)

\* the order of two keys as strings
StringLess(a, b) ==
  LET s == Digits(a)
      t == Digits(b)
  IN  \E k \in 1..(Len(s) + 1) :
        /\ \A j \in 1..(k - 1) : j <= Len(t) /\ s[j] = t[j]
        /\ IF k > Len(s) THEN Len(t) >= k
           ELSE k <= Len(t) /\ s[k] < t[k]

\* DetectBulletsFrom taking the keys in the order of Object.keys(...).sort(),
\* the order of strings
RECURSIVE DetectBulletsFromSorted(_, _, _)
DetectBulletsFromSorted(S, targets, done) ==
  IF DOMAIN targets \subseteq done THEN S
  ELSE LET bulletId == CHOOSE b \in DOMAIN targets \ done :
                          \A c \in DOMAIN targets \ done : b = c \/ StringLess(b, c)
       IN  DetectBulletsFromSorted(detectBullet(S, bulletId, targets[bulletId]),
                                   targets, done \cup {bulletId})

\* DetectBulletsFrom taking the keys in descending order
RECURSIVE DetectBulletsFromDescending(_, _, _)
DetectBulletsFromDescending(S, targets, done) ==
  IF DOMAIN targets \subseteq done THEN S
  ELSE LET bulletId == CHOOSE b \in DOMAIN targets \ done :
                          \A c \in DOMAIN targets \ done : b >= c
       IN  DetectBulletsFromDescending(detectBullet(S, bulletId, targets[bulletId]),
                                       targets, done \cup {bulletId})

\* for(let bulletId in bulletsTargets): the keys are whole numbers, which
\* an object enumerates in ascending order
RECURSIVE DetectBulletsFrom(_, _, _)
DetectBulletsFrom(S, targets, done) ==
  IF DOMAIN targets \subseteq done THEN S
  ELSE LET bulletId == CHOOSE b \in DOMAIN targets \ done :
                          \A c \in DOMAIN targets \ done : b <= c
       IN  DetectBulletsFrom(detectBullet(S, bulletId, targets[bulletId]),
                             targets, done \cup {bulletId})

\* detectCollisions with the loop over the bullets before the loop over
\* the pairs
detectCollisionsHitsFirst(W, sensors) ==
  LET D == DetectPairsFrom(W, [sensors |-> <<>>, targets |-> <<>>,
                               collisions |-> <<>>], 1)
      S == DetectBulletsFrom([W |-> W, sensors |-> sensors], D.targets, {})
  IN  [W |-> S.W, sensors |-> S.sensors \o D.sensors, collisions |-> D.collisions]

\* detectCollisions(broadphasePairs, bodiesToRemove, collisions, sensors);
\* the result is [W, sensors, collisions]
detectCollisions(W, sensors) ==
  LET D == DetectPairsFrom(W, [sensors |-> sensors, targets |-> <<>>,
                               collisions |-> <<>>], 1)
      S == DetectBulletsFrom([W |-> W, sensors |-> D.sensors], D.targets, {})
  IN  [W |-> S.W, sensors |-> S.sensors, collisions |-> D.collisions]

\* the correction of one contact: the overlap, with the axis dropped on
\* which the resolved body lies inside the static one
correctionInside(resolvedBody, staticBody, intersection) ==
  LET boundsResolved == resolvedBody.bounds
      boundsStatic == staticBody.bounds
      insideX == /\ boundsResolved.min.x > boundsStatic.min.x
                 /\ boundsResolved.max.x < boundsStatic.max.x
      insideY == /\ boundsResolved.min.y > boundsStatic.min.y
                 /\ boundsResolved.max.y < boundsStatic.max.y
  IN  [x |-> IF insideX THEN 0 ELSE intersection.width,
       y |-> IF insideY THEN 0 ELSE intersection.height,
       needMinIntersectFix |-> ~(insideX \/ insideY)]

\* a player going up through the static body below it
correctionGoingUp(resolvedBody, c) ==
  IF /\ resolvedBody.type = PLAYER
     /\ resolvedBody.moveDirectionY = -1
     /\ ~resolvedBody.isOnGround
  THEN [c EXCEPT !.y = 0, !.needMinIntersectFix = FALSE]
  ELSE c

\* a body coming down on the static body below it
correctionLanding(resolvedBody, c) ==
  IF resolvedBody.moveDirectionY = 1 /\ c.y < c.x
  THEN [c EXCEPT !.x = 0, !.needMinIntersectFix = FALSE]
  ELSE c

\* the resolved body is above the static one and they overlap along Y
correctionAbove(resolvedBody, staticBody, c) ==
  IF c.y # 0 /\ resolvedBody.position.y < staticBody.position.y
  THEN correctionLanding(resolvedBody, correctionGoingUp(resolvedBody, c))
  ELSE c

\* if(needMinIntersectFix): the smaller overlap is kept
correctionMin(c) ==
  IF c.needMinIntersectFix
  THEN IF c.x < c.y THEN [c EXCEPT !.y = 0] ELSE [c EXCEPT !.x = 0]
  ELSE c

\* the direction of the correction turned toward the static body
correctionSignedToward(resolvedBody, staticBody, c) ==
  Vec(IF resolvedBody.position.x < staticBody.position.x THEN c.x ELSE -c.x,
      IF resolvedBody.position.y < staticBody.position.y THEN c.y ELSE -c.y)

\* the direction of the correction
correctionSigned(resolvedBody, staticBody, c) ==
  Vec(IF resolvedBody.position.x < staticBody.position.x THEN -c.x ELSE c.x,
      IF resolvedBody.position.y < staticBody.position.y THEN -c.y ELSE c.y)

\* the correction vector of one contact
getCorrection(resolvedBody, staticBody, intersection) ==
  correctionSigned(resolvedBody, staticBody,
    correctionMin(correctionAbove(resolvedBody, staticBody,
      correctionInside(resolvedBody, staticBody, intersection))))

\* resolvedBody.updateCollision(correction)
updateCollision(b, correction) ==
  IF b.type = BOUNCE THEN bounceUpdateCollision(b, correction)
  ELSE playerUpdateCollision(b, correction)

\* resolvedBody.setPosition({ x: position.x + correction.x, ... })
restorePosition(b, correction) ==
  setPosition(b, Vec(b.position.x + correction.x, b.position.y + correction.y))

\* the end of the loop of correctionPositions for one contact
resolveCollision(W, resolvedBody, correction) ==
  [W EXCEPT !.body[resolvedBody.id] =
     restorePosition(updateCollision(resolvedBody, correction), correction)]

\* the body of the loop of correctionPositions for one contact
correctionOne(W, collision) ==
  LET bodyA == W.body[collision.bodyA]
      bodyB == W.body[collision.bodyB]
      isA == bodyA.type = PLAYER \/ bodyA.type = BOUNCE
      resolvedBody == IF isA THEN bodyA ELSE bodyB
      staticBody == IF isA THEN bodyB ELSE bodyA
  IN  resolveCollision(W, resolvedBody,
        getCorrection(resolvedBody, staticBody, collision.intersection))

RECURSIVE CorrectionsFrom(_, _, _)
CorrectionsFrom(W, collisions, i) ==
  IF i > Len(collisions) THEN W
  ELSE CorrectionsFrom(correctionOne(W, collisions[i]), collisions, i + 1)

\* correctionPositions(collisions)
correctionPositions(W, collisions) == CorrectionsFrom(W, collisions, 1)

\* the body of the loop of afterUpdate for one body
afterUpdateOne(b) ==
  IF b.type = PLAYER /\ ~b.isOnGround /\ b.jumpTimer = False /\ b.fallTimer = False
  THEN [b EXCEPT !.fallTimer = 0, !.lastGroundPositionY = b.position.y]
  ELSE b

RECURSIVE AfterUpdateFrom(_, _, _)
AfterUpdateFrom(W, ids, i) ==
  IF i > Len(ids) THEN W
  ELSE AfterUpdateFrom([W EXCEPT !.body[ids[i]] = afterUpdateOne(W.body[ids[i]])],
                       ids, i + 1)

\* afterUpdate that starts no fall timer
afterUpdateIdle(W) == W

\* afterUpdate(bodies)
afterUpdate(W) == AfterUpdateFrom(W, W.bodies, 1)

(***************************************************************************)
(* world.js                                                                *)
(***************************************************************************)
\* World._update(delta) stage by stage; the record s keeps the world after
\* each of the stages and the sensors collected so far.
\* updatePositions(delta, bodies, bodiesToRemove, this.bounds, sensors)
stepIntegrate(delta, r) ==
  [delta |-> delta, integrated |-> r.W, sensors |-> r.sensors]

\* removeBodies(bodies, bodiesToRemove, broadphase)
stepPurge(s) ==
  [delta |-> s.delta, integrated |-> s.integrated, sensors |-> s.sensors,
   purged |-> removeBodies(s.integrated)]

\* broadphase.update(bodies)
stepIndex(s) ==
  [delta |-> s.delta, integrated |-> s.integrated, sensors |-> s.sensors,
   purged |-> s.purged, indexed |-> gridUpdate(s.purged)]

\* detectCollisions(broadphasePairs, bodiesToRemove, collisions, sensors);
\* d is its result
stepDetected(s, d) ==
  [delta |-> s.delta, integrated |-> s.integrated, sensors |-> d.sensors,
   purged |-> s.purged, indexed |-> s.indexed, detected |-> d.W,
   collisions |-> d.collisions]

stepDetect(s) == stepDetected(s, detectCollisions(s.indexed, s.sensors))

\* correctionPositions(collisions); afterUpdate(bodies); return sensors
stepCorrect(s) ==
  [delta |-> s.delta, integrated |-> s.integrated, sensors |-> s.sensors,
   purged |-> s.purged, indexed |-> s.indexed, detected |-> s.detected,
   collisions |-> s.collisions,
   W |-> afterUpdate(correctionPositions(s.detected, s.collisions))]

\* World._update(delta): the world after each of the stages, and the
\* sensors the step returns
stepUpdate(W, delta) ==
  stepCorrect(stepDetect(stepIndex(stepPurge(
    stepIntegrate(delta, updatePositions(W, delta))))))

\* Math.floor(n / d) + 1 in place of Math.ceil(n / d)
FloorPlusOne(n, d) == (n \div d) + 1

\* Math.ceil(n / d)
Ceil(n, d) == -((-n) \div d)

\* sensors = sensors.concat(this._update(stepDelta)); R = [W, sensors, steps]
concatStep(R, step) ==
  [W |-> step.W, sensors |-> R.sensors \o step.sensors, steps |-> Append(R.steps, step)]

\* the loop of World.update; R = [W, sensors, steps]
RECURSIVE UpdateLoop(_, _, _)
UpdateLoop(R, stepsCount, delta) ==
  IF stepsCount = 0 THEN R
  ELSE LET stepDelta == IF delta < maxDelta THEN delta ELSE maxDelta
           rest == IF delta < maxDelta THEN delta ELSE delta - maxDelta
       IN  UpdateLoop(concatStep(R, stepUpdate(R.W, stepDelta)), stepsCount - 1, rest)

\* World.update with Math.floor in place of Math.ceil
updateFloor(W, delta) ==
  UpdateLoop([W |-> W, sensors |-> <<>>, steps |-> <<>>], delta \div maxDelta, delta)

\* World.update(delta)
update(W, delta) ==
  UpdateLoop([W |-> W, sensors |-> <<>>, steps |-> <<>>], Ceil(delta, maxDelta), delta)

\* World.removeBody(body)
removeBody(W, id) == [W EXCEPT !.bodiesToRemove = Append(@, id)]

\* World.createStaticBody, createPlayerBody, createBounceBody,
\* createBulletBody: this.bodies.push(body)
pushBody(W, b) ==
  [W EXCEPT !.body = W.body @@ (b.id :> b), !.bodies = Append(@, b.id)]

(***************************************************************************)
(* The host: the inputs the model draws                                    *)
(***************************************************************************)
\* options.bounds of createWorld, in points
WorldBounds == Box(P(-600), P(-600), P(1100), P(600))

\* a floor over the regions 0:0 and 1:0, and a sensor over 1:-1 and 1:0
StaticOptions ==
  { [x |-> 512, y |-> 100, width |-> 400, height |-> 40, isSensor |-> FALSE],
    [x |-> 600, y |-> 40, width |-> 100, height |-> 100, isSensor |-> TRUE] }

\* a player astride the border of the regions 0:0 and 1:0, sunk into the floor
PlayerOptions ==
  { [x |-> 500, y |-> 65, width |-> 40, height |-> 40,
     moveSpeed |-> 8000, jumpDistance |-> 40] }

BounceOptions ==
  { [x |-> 400, y |-> 75, width |-> 20, height |-> 20, force |-> Vec(2000, 1000)] }

\* a bullet fired from inside the player's box, with or without an owner
\* and with or without a travel budget
BulletOptions ==
  { [x |-> 470, y |-> 65, force |-> Vec(4000, 3000), ownerId |-> o, longOfLife |-> l] :
      o \in {0, 1}, l \in {0, 100} } \ { [x |-> 470, y |-> 65, force |-> Vec(4000, 3000), ownerId |-> 1, longOfLife |-> 100] }

\* the values of delta given to World.update
Deltas == {0, 16, 33, 40}

\* the positions given to setPosition
SetPositions == { Vec(P(300), P(65)), Vec(P(640), P(65)) }

NewWorld ==
  [ bounds |-> WorldBounds, body |-> <<>>, bodies |-> <<>>,
    bodiesToRemove |-> <<>>, hash |-> <<>>, pairs |-> <<>> ]

(***************************************************************************)
(* State                                                                   *)
(***************************************************************************)
VARIABLES
  nextId,   \* common.js: the process-wide id counter
  world,    \* the world
  ret,      \* the last call of World.update: [delta, from (the world when
            \* it was called), steps (its sub-steps, stage by stage), W (the
            \* world when it returned), sensors (what it returned)]
  ops,      \* the number of input calls and calls of World.update so far
  twin,     \* a second world of the same process, given the same calls:
            \* [start (the first id of the first world), world, ret]
  loop      \* the call of World.update in progress, when its loop is taken
            \* pass by pass: [pc, stepsCount, delta]

vars == <<nextId, world, ret, ops, twin, loop>>

NoReturn ==
  [delta |-> 0, from |-> NewWorld, steps |-> <<>>, W |-> NewWorld, sensors |-> <<>>]

NoTwin == [start |-> 1, world |-> NewWorld, ret |-> NoReturn]

\* no call of World.update in progress
NoLoop == [pc |-> "idle", stepsCount |-> 0, delta |-> 0]

Init ==
  /\ nextId = 1
  /\ world = NewWorld
  /\ ret = NoReturn
  /\ ops = 0
  /\ twin = NoTwin
  /\ loop = NoLoop

Create(b) ==
  /\ nextId <= MaxBodies
  /\ nextId' = nextId + 1
  /\ world' = pushBody(world, b)
  /\ UNCHANGED <<ret, ops, twin, loop>>

CreateStaticBody ==
  \E options \in StaticOptions : Create(BodyStatic(options, nextId))

CreatePlayerBody ==
  \E options \in PlayerOptions : Create(BodyPlayer(options, nextId))

CreateBounceBody ==
  \E options \in BounceOptions : Create(BodyBounce(options, nextId))

CreateBulletBody ==
  \E options \in BulletOptions : Create(BodyBullet(options, nextId))

\* the call of World.update(delta) on the world W that returned R
Call(W, delta, R) ==
  [delta |-> delta, from |-> W, steps |-> R.steps, W |-> R.W, sensors |-> R.sensors]

\* what a call of World.update on the world W leaves in ret
Returned(W, delta) == Call(W, delta, update(W, delta))

Update ==
  \E delta \in Deltas :
    /\ ops < MaxOps
    /\ ret' = Returned(world, delta)
    /\ world' = ret'.W
    /\ ops' = ops + 1
    /\ UNCHANGED <<nextId, twin, loop>>

\* an input call of the host
Input(W) ==
  /\ ops < MaxOps
  /\ ops' = ops + 1
  /\ world' = W
  /\ UNCHANGED <<nextId, ret, twin, loop>>

\* the host keeps every body it created, also after its removal
RemoveBody ==
  \E id \in DOMAIN world.body : Input(removeBody(world, id))

Players == { id \in DOMAIN world.body : world.body[id].type = PLAYER }
Movable == { id \in DOMAIN world.body : world.body[id].type \in {PLAYER, BOUNCE} }

Move ==
  \E id \in Players, dir \in {-1, 1} :
    Input([world EXCEPT !.body[id] = move(world.body[id], dir)])

Stop ==
  \E id \in Players : Input([world EXCEPT !.body[id] = stop(world.body[id])])

Jump ==
  \E id \in Players : Input([world EXCEPT !.body[id] = jump(world.body[id])])

SetPosition ==
  \E id \in Movable, position \in SetPositions :
    Input([world EXCEPT !.body[id] = setPosition(world.body[id], position)])

Next ==
  \/ CreateStaticBody
  \/ CreatePlayerBody
  \/ CreateBounceBody
  \/ CreateBulletBody
  \/ Update
  \/ RemoveBody
  \/ Move
  \/ Stop
  \/ Jump
  \/ SetPosition

Spec == Init /\ [][Next]_vars

(***************************************************************************)
(* A lone BOUNCE body given any sequence of update and updateCollision     *)
(* calls, with any correction                                              *)
(***************************************************************************)
\* the corrections given to updateCollision, in units
Corrections ==
  { Vec(0, -P(5)), Vec(P(5), 0), Vec(0, P(5)), Vec(-P(5), -P(5)), Vec(0, 0) }

\* the values of delta given to update
BounceDeltas == {16, 33}

BounceIds == { id \in DOMAIN world.body : world.body[id].type = BOUNCE }

InitBounce ==
  /\ nextId = 2
  /\ \E options \in BounceOptions :
       world = pushBody(NewWorld, BodyBounce(options, 1))
  /\ ret = NoReturn
  /\ ops = 0
  /\ twin = NoTwin
  /\ loop = NoLoop

BounceCall(W) ==
  /\ ops < MaxCalls
  /\ ops' = ops + 1
  /\ world' = W
  /\ UNCHANGED <<nextId, ret, twin, loop>>

BounceUpdate ==
  \E id \in BounceIds, delta \in BounceDeltas :
    BounceCall([world EXCEPT !.body[id] = bounceUpdate(world.body[id], delta)])

BounceUpdateCollision ==
  \E id \in BounceIds, correction \in Corrections :
    BounceCall([world EXCEPT !.body[id] = bounceUpdateCollision(world.body[id], correction)])

NextBounce ==
  \/ BounceUpdate
  \/ BounceUpdateCollision

SpecBounce == InitBounce /\ [][NextBounce]_vars

(***************************************************************************)
(* Two worlds of one process, built by the same factory calls (each call   *)
(* made on the first world, then on the second) and then given the same    *)
(* input calls and the same deltas.  The ids come from the one counter of  *)
(* the process, so the body of the second world that corresponds to the    *)
(* body id of the first has the id id + 1.                                 *)
(***************************************************************************)
\* the counter when the first body is created: a fresh process, or one that
\* has created six bodies in other worlds before
StartIds == {1, 7}

TwinId(id) == IF id = 0 THEN 0 ELSE id + 1

\* the id of the k-th body created in the world whose first body has the id
\* first; no owner when k = 0
NthId(first, k) == IF k = 0 THEN 0 ELSE first + 2 * (k - 1)

InitReplay ==
  /\ nextId \in StartIds
  /\ world = NewWorld
  /\ ret = NoReturn
  /\ ops = 0
  /\ twin = [start |-> nextId, world |-> NewWorld, ret |-> NoReturn]
  /\ loop = NoLoop

\* the factory calls come first
ReplayCreate(b, c) ==
  /\ ops = 0
  /\ nextId < twin.start + 2 * MaxTwinBodies
  /\ nextId' = nextId + 2
  /\ world' = pushBody(world, b)
  /\ twin' = [twin EXCEPT !.world = pushBody(twin.world, c)]
  /\ UNCHANGED <<ret, ops, loop>>

ReplayCreateStaticBody ==
  \E options \in StaticOptions :
    ReplayCreate(BodyStatic(options, nextId), BodyStatic(options, nextId + 1))

ReplayCreatePlayerBody ==
  \E options \in PlayerOptions :
    ReplayCreate(BodyPlayer(options, nextId), BodyPlayer(options, nextId + 1))

ReplayCreateBounceBody ==
  \E options \in BounceOptions :
    ReplayCreate(BodyBounce(options, nextId), BodyBounce(options, nextId + 1))

\* options.ownerId is the first body of the bullet's own world, or none
ReplayCreateBulletBody ==
  \E options \in BulletOptions :
    ReplayCreate(
      BodyBullet([options EXCEPT !.ownerId = NthId(twin.start, options.ownerId)], nextId),
      BodyBullet([options EXCEPT !.ownerId = NthId(twin.start + 1, options.ownerId)], nextId + 1))

ReplayUpdate ==
  \E delta \in Deltas :
    /\ ops < MaxTwinOps
    /\ ret' = Returned(world, delta)
    /\ world' = ret'.W
    /\ twin' = [twin EXCEPT !.ret = Returned(twin.world, delta),
                            !.world = Returned(twin.world, delta).W]
    /\ ops' = ops + 1
    /\ UNCHANGED <<nextId, loop>>

\* an input call made on both worlds
ReplayInput(W, V) ==
  /\ ops < MaxTwinOps
  /\ ops' = ops + 1
  /\ world' = W
  /\ twin' = [twin EXCEPT !.world = V]
  /\ UNCHANGED <<nextId, ret, loop>>

ReplayRemoveBody ==
  \E id \in DOMAIN world.body :
    ReplayInput(removeBody(world, id), removeBody(twin.world, TwinId(id)))

ReplayMove ==
  \E id \in Players, dir \in {-1, 1} :
    ReplayInput([world EXCEPT !.body[id] = move(world.body[id], dir)],
                [twin.world EXCEPT !.body[TwinId(id)] = move(twin.world.body[TwinId(id)], dir)])

ReplayJump ==
  \E id \in Players :
    ReplayInput([world EXCEPT !.body[id] = jump(world.body[id])],
                [twin.world EXCEPT !.body[TwinId(id)] = jump(twin.world.body[TwinId(id)])])

ReplaySetPosition ==
  \E id \in Movable, position \in SetPositions :
    ReplayInput([world EXCEPT !.body[id] = setPosition(world.body[id], position)],
                [twin.world EXCEPT !.body[TwinId(id)] = setPosition(twin.world.body[TwinId(id)], position)])

NextReplay ==
  \/ ReplayCreateStaticBody
  \/ ReplayCreatePlayerBody
  \/ ReplayCreateBounceBody
  \/ ReplayCreateBulletBody
  \/ ReplayUpdate
  \/ ReplayRemoveBody
  \/ ReplayMove
  \/ ReplayJump
  \/ ReplaySetPosition

SpecReplay == InitReplay /\ [][NextReplay]_vars

(***************************************************************************)
(* A world of one body given calls of World.update with every delta from   *)
(* 1 ms to MaxDelta ms                                                      *)
(***************************************************************************)
StepDeltas == 1..MaxDelta

InitSteps ==
  /\ nextId = 2
  /\ \/ \E options \in PlayerOptions :
          world = pushBody(NewWorld, BodyPlayer(options, 1))
     \/ \E options \in BounceOptions :
          world = pushBody(NewWorld, BodyBounce(options, 1))
  /\ ret = NoReturn
  /\ ops = 0
  /\ twin = NoTwin
  /\ loop = NoLoop

StepsUpdate ==
  \E delta \in StepDeltas :
    /\ ops < MaxStepCalls
    /\ ret' = Returned(world, delta)
    /\ world' = ret'.W
    /\ ops' = ops + 1
    /\ UNCHANGED <<nextId, twin, loop>>

NextSteps == StepsUpdate

SpecSteps == InitSteps /\ [][NextSteps]_vars

(***************************************************************************)
(* World.update taken pass by pass: the test of while(stepsCount--) and    *)
(* the body of the loop are steps of their own, so that a call that never  *)
(* returns is a behaviour of the model                                     *)
(***************************************************************************)
\* the values of delta given to World.update, in ms
LoopDeltas == {-40, -33, -20, 0, 16, 33, 40}

\* stepsCount--
Decrement(n) == IF n - 1 < -MaxSpin THEN n ELSE n - 1

InitLoop ==
  /\ nextId = 2
  /\ \/ world = NewWorld
     \/ \E options \in StaticOptions :
          world = pushBody(NewWorld, BodyStatic(options, 1))
     \/ \E options \in PlayerOptions :
          world = pushBody(NewWorld, BodyPlayer(options, 1))
     \/ \E options \in BulletOptions :
          world = pushBody(NewWorld, BodyBullet(options, 1))
  /\ ret = NoReturn
  /\ ops = 0
  /\ twin = NoTwin
  /\ loop = NoLoop

\* update(delta) { const maxDelta = 33; let stepsCount = ...; let sensors = [];
\* ret holds the call in progress: the world and the sensors so far (its
\* sub-steps are not kept)
LoopCall ==
  \E delta \in LoopDeltas :
    /\ loop.pc \in {"idle", "returned"}
    /\ ops < MaxLoopCalls
    /\ ops' = ops + 1
    /\ loop' = [pc |-> "test", stepsCount |-> Ceil(delta, maxDelta), delta |-> delta]
    /\ ret' = [delta |-> delta, from |-> world, steps |-> <<>>, W |-> world,
               sensors |-> <<>>]
    /\ UNCHANGED <<nextId, world, twin>>

\* while(stepsCount--) ... return sensors
LoopTest ==
  /\ loop.pc = "test"
  /\ loop' = [loop EXCEPT !.pc = IF loop.stepsCount # 0 THEN "body" ELSE "returned",
                          !.stepsCount = Decrement(loop.stepsCount)]
  /\ UNCHANGED <<nextId, world, ret, ops, twin>>

\* the body of the loop, what it does to delta: if(delta < maxDelta)
\* stepDelta = delta; else { stepDelta = maxDelta; delta -= maxDelta; }
LoopPass ==
  /\ loop.pc = "body"
  /\ loop' = [loop EXCEPT !.pc = "test",
                          !.delta = IF loop.delta < maxDelta THEN loop.delta
                                    ELSE loop.delta - maxDelta]

\* the body of the loop: one call of this._update(stepDelta)
LoopBody ==
  /\ LoopPass
  /\ LET stepDelta == IF loop.delta < maxDelta THEN loop.delta ELSE maxDelta
         R == concatStep([W |-> world, sensors |-> ret.sensors, steps |-> <<>>],
                         stepUpdate(world, stepDelta))
     IN  /\ world' = R.W
         /\ ret' = [ret EXCEPT !.W = R.W, !.sensors = R.sensors]
  /\ UNCHANGED <<nextId, ops, twin>>

NextLoop ==
  \/ LoopCall
  \/ LoopTest
  \/ LoopBody

\* a call of World.update runs to its end or for ever, nothing else stops
\* it: the test is taken when it is reached, and so is the body of the
\* loop (every step of NextLoop that is a LoopPass step is a LoopBody step)
SpecLoop ==
  InitLoop /\ [][NextLoop]_vars /\ WF_loop(LoopTest) /\ WF_loop(LoopPass)

(***************************************************************************)
(* A world with a near edge, holding a player, the floor, the sensor and a  *)
(* bullet, given any calls of the host: bodies leave the world             *)
(***************************************************************************)
\* options.bounds of createWorld, in points: the bullet of BulletOptions is
\* on the lower edge after 33 ms, the first of SetPositions is outside, and
\* the box of the player of PlayerOptions reaches over the left edge
EdgeBounds == Box(P(485), P(-600), P(1100), P(164))

\* the static bodies of StaticOptions: the floor, then the sensor
Statics ==
  << CHOOSE options \in StaticOptions : ~options.isSensor,
     CHOOSE options \in StaticOptions : options.isSensor >>

InitEdge ==
  /\ nextId = 5
  /\ \E player \in PlayerOptions, bullet \in BulletOptions :
       world = pushBody(pushBody(pushBody(pushBody(
                  [NewWorld EXCEPT !.bounds = EdgeBounds],
                  BodyPlayer(player, 1)), BodyStatic(Statics[1], 2)),
                  BodyStatic(Statics[2], 3)), BodyBullet(bullet, 4))
  /\ ret = NoReturn
  /\ ops = 0
  /\ twin = NoTwin
  /\ loop = NoLoop

NextEdge ==
  \/ Update
  \/ RemoveBody
  \/ Move
  \/ Stop
  \/ Jump
  \/ SetPosition

SpecEdge == InitEdge /\ [][NextEdge]_vars

(***************************************************************************)
(* Two worlds of one process, each with a body of its own; the host gives  *)
(* World.removeBody of the first world bodies that are not in it: bodies   *)
(* it has removed already, and the body of the other world (twin.world)    *)
(***************************************************************************)
\* the values of delta given to World.update: no sub-step, or one
ForeignDeltas == {0, 16, 33}

\* Grid.removeBody(body) given a body b of another world.  b is in no list
\* of this.hash and in no pair of this.pairs, so that the loops change
\* nothing; but _removePairs reads this.hash[region].length for every region
\* of b, and this.hash[region] is undefined for a region no body of this
\* world has entered: TypeError
foreignThrows(W, b) ==
  b.hasRegions /\ \E i \in 1..Len(b.regions) : b.regions[i] \notin DOMAIN W.hash

\* delete(body.regions); delete(body.regionsString), on the body of the
\* other world
foreignReleased(b) ==
  IF b.hasRegions
  THEN [b EXCEPT !.regions = <<>>, !.hasRegions = FALSE, !.regionsString = <<>>]
  ELSE b

\* the loop of removeBodies when the queue may hold bodies of the other
\* world T; R = [W, T, threw]
RECURSIVE RemoveForeignFrom(_, _, _)
RemoveForeignFrom(R, queue, i) ==
  IF i > Len(queue) THEN R
  ELSE IF queue[i] \in DOMAIN R.W.body
  THEN RemoveForeignFrom([R EXCEPT !.W = removeOne(R.W, queue[i])], queue, i + 1)
  ELSE IF foreignThrows(R.W, R.T.body[queue[i]])
  THEN [R EXCEPT !.threw = TRUE]
  ELSE RemoveForeignFrom(
         [R EXCEPT !.T.body[queue[i]] = foreignReleased(R.T.body[queue[i]])],
         queue, i + 1)

\* World._update(delta) from stage 2 on, given the world after stage 1 and
\* what the loop of removeBodies made of it
stepAfterPurge(delta, integrated, R) ==
  stepCorrect(stepDetect(stepIndex(
    [delta |-> delta, integrated |-> integrated.W, sensors |-> integrated.sensors,
     purged |-> [R.W EXCEPT !.bodiesToRemove = <<>>]])))

InitForeign ==
  /\ nextId = 3
  /\ \/ \E options \in StaticOptions :
          world = pushBody(NewWorld, BodyStatic(options, 1))
     \/ \E options \in PlayerOptions :
          world = pushBody(NewWorld, BodyPlayer(options, 1))
  /\ \/ \E options \in StaticOptions :
          twin = [NoTwin EXCEPT !.world = pushBody(NewWorld, BodyStatic(options, 2))]
     \/ \E options \in PlayerOptions :
          twin = [NoTwin EXCEPT !.world = pushBody(NewWorld, BodyPlayer(options, 2))]
  /\ ret = NoReturn
  /\ ops = 0
  /\ loop = NoLoop

\* a call of the host, while no call has thrown
ForeignCall ==
  /\ loop.pc = "idle"
  /\ ops < MaxOps
  /\ ops' = ops + 1

\* World.update of the other world
ForeignWorldUpdate ==
  \E delta \in ForeignDeltas :
    /\ ForeignCall
    /\ twin' = [twin EXCEPT !.world = update(twin.world, delta).W]
    /\ UNCHANGED <<nextId, world, ret, loop>>

\* World.removeBody of the first world, given a body of either world
ForeignRemoveBody ==
  \E id \in DOMAIN world.body \cup DOMAIN twin.world.body :
    /\ ForeignCall
    /\ world' = removeBody(world, id)
    /\ UNCHANGED <<nextId, ret, twin, loop>>

\* what World.update(delta) of the first world does with no sub-step, with
\* a sub-step that ends, and with a sub-step that throws in removeBodies
ForeignUpdated(delta, integrated, R) ==
  IF delta = 0
  THEN /\ ret' = Call(world, delta, [W |-> world, sensors |-> <<>>, steps |-> <<>>])
       /\ UNCHANGED <<world, twin, loop>>
  ELSE IF R.threw
  THEN /\ world' = R.W
       /\ twin' = [twin EXCEPT !.world = R.T]
       /\ loop' = [loop EXCEPT !.pc = "threw"]
       /\ UNCHANGED ret
  ELSE /\ world' = stepAfterPurge(delta, integrated, R).W
       /\ twin' = [twin EXCEPT !.world = R.T]
       /\ ret' = Call(world, delta,
                      [W |-> world', sensors |-> stepAfterPurge(delta, integrated, R).sensors,
                       steps |-> <<stepAfterPurge(delta, integrated, R)>>])
       /\ UNCHANGED loop

ForeignPurged(integrated) ==
  RemoveForeignFrom([W |-> integrated.W, T |-> twin.world, threw |-> FALSE],
                    integrated.W.bodiesToRemove, 1)

ForeignIntegrated(delta, integrated) ==
  ForeignUpdated(delta, integrated, ForeignPurged(integrated))

\* World.update of the first world
ForeignUpdate ==
  \E delta \in ForeignDeltas :
    /\ ForeignCall
    /\ ForeignIntegrated(delta, updatePositions(world, delta))
    /\ UNCHANGED nextId

NextForeign ==
  \/ ForeignWorldUpdate
  \/ ForeignRemoveBody
  \/ ForeignUpdate

SpecForeign == InitForeign /\ [][NextForeign]_vars

(***************************************************************************)
(* The scenario of the static floor that catches the player: a world with  *)
(* bounds [-10000, 10000]^2, a static floor of 1000 x 40 centred at        *)
(* (0, 200), a player of 20 x 40 created above it, at (0, 0) or higher,    *)
(* and a host that calls World.update(16) and nothing else                 *)
(***************************************************************************)
CatchBounds == Box(P(-10000), P(-10000), P(10000), P(10000))

CatchFloor == [x |-> 0, y |-> 200, width |-> 1000, height |-> 40, isSensor |-> FALSE]

\* the heights the player is created at
CatchStarts == {0, -100, -300}

CatchPlayer(y) ==
  [x |-> 0, y |-> y, width |-> 20, height |-> 40, moveSpeed |-> 0, jumpDistance |-> 0]

CatchDelta == 16

InitCatch ==
  /\ nextId = 3
  /\ \E y \in CatchStarts :
       world = pushBody(pushBody([NewWorld EXCEPT !.bounds = CatchBounds],
                                 BodyPlayer(CatchPlayer(y), 1)),
                        BodyStatic(CatchFloor, 2))
  /\ ret = NoReturn
  /\ ops = 0
  /\ twin = NoTwin
  /\ loop = NoLoop

\* the host calls World.update once more
CatchCall ==
  /\ ops < MaxCatchCalls
  /\ ops' = ops + 1

\* World.update(16)
CatchUpdate ==
  /\ CatchCall
  /\ ret' = Returned(world, CatchDelta)
  /\ world' = ret'.W
  /\ UNCHANGED <<nextId, twin, loop>>

NextCatch == CatchUpdate

\* the host goes on calling World.update
SpecCatch == InitCatch /\ [][NextCatch]_vars /\ WF_ops(CatchCall)

(***************************************************************************)
(* The scenario of the bullet shot at a static body: a static of 100 x 100 *)
(* centred at (500, 0), and a bullet with no longOfLife and no owner       *)
(* created on the line y = 0 with force (5000, 0), or above the static     *)
(* with force (0, 5000); the host calls World.update.  The bounds of the   *)
(* world, infinite by default, are [-10000, 10000]^2                       *)
(***************************************************************************)
ShotStatic == [x |-> 500, y |-> 0, width |-> 100, height |-> 100, isSensor |-> FALSE]

\* where the bullet is created, on the line y = 0
ShotStarts == {-85, 0, 80}

ShotBullet(x) ==
  [x |-> x, y |-> 0, force |-> Vec(5000, 0), ownerId |-> 0, longOfLife |-> 0]

ShotDeltas == {16, 33, 100}

\* the world of the scenario with the bullet created at (x, 0): the static
\* has id 1, the bullet id 2
ShotWorld(x) ==
  pushBody(pushBody([NewWorld EXCEPT !.bounds = CatchBounds], BodyStatic(ShotStatic, 1)),
           BodyBullet(ShotBullet(x), 2))

\* the world of the scenario with a bullet shot down at the static from
\* above it, with force (0, 5000)
ShotWorldDown ==
  pushBody(pushBody([NewWorld EXCEPT !.bounds = CatchBounds], BodyStatic(ShotStatic, 1)),
           BodyBullet([x |-> 520, y |-> -200, force |-> Vec(0, 5000), ownerId |-> 0,
                       longOfLife |-> 0], 2))

InitShot ==
  /\ nextId = 3
  /\ \/ \E x \in ShotStarts : world = ShotWorld(x)
     \/ world = ShotWorldDown
  /\ ret = NoReturn
  /\ ops = 0
  /\ twin = NoTwin
  /\ loop = NoLoop

\* World.update(delta)
ShotUpdate ==
  \E delta \in ShotDeltas :
    /\ ops < MaxShotCalls
    /\ ops' = ops + 1
    /\ ret' = Returned(world, delta)
    /\ world' = ret'.W
    /\ UNCHANGED <<nextId, twin, loop>>

NextShot == ShotUpdate

SpecShot == InitShot /\ [][NextShot]_vars

(***************************************************************************)
(* The scenario of the bounce body that settles: a world with bounds       *)
(* [-10000, 10000]^2, a static floor of 1000 x 40 centred at (0, 100), a   *)
(* bounce body of 20 x 20 launched upwards from (0, 0), and a host that    *)
(* calls World.update(16) and nothing else                                 *)
(***************************************************************************)
SettleFloor == [x |-> 0, y |-> 100, width |-> 1000, height |-> 40, isSensor |-> FALSE]

\* the forces the bounce body is launched with
SettleForces == {Vec(0, -300), Vec(0, -400), Vec(200, -400)}

SettleBounce(force) == [x |-> 0, y |-> 0, width |-> 20, height |-> 20, force |-> force]

SettleDelta == 16

\* the bounce body has id 1, the floor id 2
InitSettle ==
  /\ nextId = 3
  /\ \E force \in SettleForces :
       world = pushBody(pushBody([NewWorld EXCEPT !.bounds = CatchBounds],
                                 BodyBounce(SettleBounce(force), 1)),
                        BodyStatic(SettleFloor, 2))
  /\ ret = NoReturn
  /\ ops = 0
  /\ twin = NoTwin
  /\ loop = NoLoop

\* World.update(16)
SettleUpdate ==
  /\ ops < MaxSettleCalls
  /\ ops' = ops + 1
  /\ ret' = Returned(world, SettleDelta)
  /\ world' = ret'.W
  /\ UNCHANGED <<nextId, twin, loop>>

NextSettle == SettleUpdate

SpecSettle == InitSettle /\ [][NextSettle]_vars

(***************************************************************************)
(* The scenario of the jump: the world and the floor of the floor catch, a *)
(* player of 20 x 40 created standing on the floor, at (0, 160), with the  *)
(* default jumpDistance (44) or with 40, and a host that calls             *)
(* World.update and BodyPlayer.jump                                        *)
(***************************************************************************)
\* options.jumpDistance: 0 for none given
JumpDistances == {0, 40}

JumpPlayer(jumpDistance) ==
  [x |-> 0, y |-> 160, width |-> 20, height |-> 40, moveSpeed |-> 0,
   jumpDistance |-> jumpDistance]

JumpDeltas == {16, 20}

\* the player has id 1, the floor id 2
InitJump ==
  /\ nextId = 3
  /\ \E jumpDistance \in JumpDistances :
       world = pushBody(pushBody([NewWorld EXCEPT !.bounds = CatchBounds],
                                 BodyPlayer(JumpPlayer(jumpDistance), 1)),
                        BodyStatic(CatchFloor, 2))
  /\ ret = NoReturn
  /\ ops = 0
  /\ twin = NoTwin
  /\ loop = NoLoop

\* World.update(delta)
JumpUpdate ==
  \E delta \in JumpDeltas :
    /\ ops < MaxJumpCalls
    /\ ops' = ops + 1
    /\ ret' = Returned(world, delta)
    /\ world' = ret'.W
    /\ UNCHANGED <<nextId, twin, loop>>

\* BodyPlayer.jump()
JumpJump ==
  /\ ops < MaxJumpCalls
  /\ ops' = ops + 1
  /\ world' = [world EXCEPT !.body[1] = jump(world.body[1])]
  /\ UNCHANGED <<nextId, ret, twin, loop>>

NextJump == JumpUpdate \/ JumpJump

SpecJump == InitJump /\ [][NextJump]_vars

(***************************************************************************)
(* The scenario of the two bullets: the static of the scenario of the shot *)
(* (id 1), and two bullets with no longOfLife and no owner created on the  *)
(* line y = 0 and shot at it, the first (id 2) from the static's region or *)
(* from further away, the second (id 3) from (0, 0); the host calls        *)
(* World.update                                                            *)
(***************************************************************************)
\* where the first bullet is created, and the forces of the bullets
VolleyStarts == {-600, -300, 0}
VolleyForces == {7000, 17000}

VolleyBullet(x, force) ==
  [x |-> x, y |-> 0, force |-> Vec(force, 0), ownerId |-> 0, longOfLife |-> 0]

VolleyDeltas == {16, 33, 66}

InitVolley ==
  /\ nextId = 4
  /\ \E x \in VolleyStarts, first \in VolleyForces, second \in VolleyForces :
       world = pushBody(pushBody(pushBody([NewWorld EXCEPT !.bounds = CatchBounds],
                                          BodyStatic(ShotStatic, 1)),
                                 BodyBullet(VolleyBullet(x, first), 2)),
                        BodyBullet(VolleyBullet(0, second), 3))
  /\ ret = NoReturn
  /\ ops = 0
  /\ twin = NoTwin
  /\ loop = NoLoop

\* World.update(delta)
VolleyUpdate ==
  \E delta \in VolleyDeltas :
    /\ ops < MaxVolleyCalls
    /\ ops' = ops + 1
    /\ ret' = Returned(world, delta)
    /\ world' = ret'.W
    /\ UNCHANGED <<nextId, twin, loop>>

NextVolley == VolleyUpdate

SpecVolley == InitVolley /\ [][NextVolley]_vars

(***************************************************************************)
(* The scenario of the air control: the player of the scenario of the jump *)
(* (id 1) on the floor of the scenario of the catch (id 2), with a wall    *)
(* (id 3) 6 points to its right; the host calls World.update, move, stop   *)
(* and jump                                                                *)
(***************************************************************************)
AirWall == [x |-> 26, y |-> 100, width |-> 20, height |-> 200, isSensor |-> FALSE]

AirDelta == 16

InitAir ==
  /\ nextId = 4
  /\ \E jumpDistance \in JumpDistances :
       world = pushBody(pushBody(pushBody([NewWorld EXCEPT !.bounds = CatchBounds],
                                          BodyPlayer(JumpPlayer(jumpDistance), 1)),
                                 BodyStatic(CatchFloor, 2)),
                        BodyStatic(AirWall, 3))
  /\ ret = NoReturn
  /\ ops = 0
  /\ twin = NoTwin
  /\ loop = NoLoop

\* World.update(delta)
AirUpdate ==
  /\ ops < MaxAirCalls
  /\ ops' = ops + 1
  /\ ret' = Returned(world, AirDelta)
  /\ world' = ret'.W
  /\ UNCHANGED <<nextId, twin, loop>>

\* an input call of the host on the player
AirInput(b) ==
  /\ ops < MaxAirCalls
  /\ ops' = ops + 1
  /\ world' = [world EXCEPT !.body[1] = b]
  /\ UNCHANGED <<nextId, ret, twin, loop>>

\* BodyPlayer.move(dir)
AirMove == \E dir \in {-1, 1} : AirInput(move(world.body[1], dir))

\* BodyPlayer.stop()
AirStop == AirInput(stop(world.body[1]))

\* BodyPlayer.jump()
AirJump == AirInput(jump(world.body[1]))

NextAir ==
  \/ AirUpdate
  \/ AirMove
  \/ AirStop
  \/ AirJump

SpecAir == InitAir /\ [][NextAir]_vars

(***************************************************************************)
(* The scenario of the small static: a player or a bounce body of 40x40    *)
(* (id 1) created over a static body centred at (0, 0) (id 2) that is      *)
(* smaller or larger than it; the host calls World.update(16)              *)
(***************************************************************************)
\* the sizes of the static body, and the places the moving body is created at
ResolveSizes == {10, 100}
ResolveStarts == {-30, -10, 0, 10, 30}

ResolveStatic(size) ==
  [x |-> 0, y |-> 0, width |-> size, height |-> size, isSensor |-> FALSE]

ResolvePlayer(x, y) ==
  [x |-> x, y |-> y, width |-> 40, height |-> 40, moveSpeed |-> 0, jumpDistance |-> 0]

ResolveBounce(x, y) ==
  [x |-> x, y |-> y, width |-> 40, height |-> 40, force |-> Vec(0, 0)]

ResolveDelta == 16

InitResolve ==
  /\ nextId = 3
  /\ \E x \in ResolveStarts, y \in ResolveStarts, size \in ResolveSizes :
       \E b \in {BodyPlayer(ResolvePlayer(x, y), 1), BodyBounce(ResolveBounce(x, y), 1)} :
         world = pushBody(pushBody([NewWorld EXCEPT !.bounds = CatchBounds], b),
                          BodyStatic(ResolveStatic(size), 2))
  /\ ret = NoReturn
  /\ ops = 0
  /\ twin = NoTwin
  /\ loop = NoLoop

\* World.update(16)
ResolveUpdate ==
  /\ ops < MaxResolveCalls
  /\ ops' = ops + 1
  /\ ret' = Returned(world, ResolveDelta)
  /\ world' = ret'.W
  /\ UNCHANGED <<nextId, twin, loop>>

NextResolve == ResolveUpdate

SpecResolve == InitResolve /\ [][NextResolve]_vars

(***************************************************************************)
(* Properties                                                              *)
(***************************************************************************)
\* the sub-steps of the last call of World.update
Steps == { ret.steps[i] : i \in 1..Len(ret.steps) }

\* the worlds seen: the world between calls of the host, and the world
\* after each stage of each sub-step of the last call of World.update
Worlds ==
  {world, ret.from, ret.W}
    \cup UNION { {s.integrated, s.purged, s.indexed, s.detected, s.W} : s \in Steps }

\* the worlds right after the re-index stage (Grid.update)
Indexed == { s.indexed : s \in Steps }

Pairs(W) == { W.pairs[i] : i \in 1..Len(W.pairs) }
PairKeys(W) == { p.id : p \in Pairs(W) }
Registered(W) == { W.bodies[i] : i \in 1..Len(W.bodies) }

\* the region keys in whose hash list both bodies are
SharedRegions(W, a, b) ==
  { r \in DOMAIN W.hash : Contains(W.hash[r], a) /\ Contains(W.hash[r], b) }

\* C1: each entry of grid.pairs has count >= 1, and its count is the number
\* of region keys whose hash list holds both of its bodies.
C1_PairCountIsSharedRegions ==
  \A W \in Worlds : \A p \in Pairs(W) :
    /\ p.count >= 1
    /\ p.count = Cardinality(SharedRegions(W, p.bodyA, p.bodyB))

\* a pair whose bodies share two regions, and one whose bodies share one
C1_Witness ==
  /\ \E p \in Pairs(world) : p.count = 2
  /\ \E W \in Worlds : \E p \in Pairs(W) : p.count = 1

\* C3: every body in a hash list grid.hash[r] has its regions defined, and
\* they contain r.
C3_HashedBodyKnowsRegion ==
  \A W \in Worlds : \A r \in DOMAIN W.hash : \A i \in 1..Len(W.hash[r]) :
    LET b == W.body[W.hash[r][i]]
    IN  b.hasRegions /\ Contains(b.regions, r)

\* a body was removed from the grid while another body stays in a hash list
\* they shared
C3_Witness ==
  \E s \in Steps : \E id \in Registered(s.integrated) \ Registered(s.purged) :
    \E r \in DOMAIN s.purged.hash :
      Contains(s.integrated.hash[r], id) /\ s.purged.hash[r] # <<>>

\* C7: no entry of grid.pairs has two bodies of the same type, and none
\* pairs a BOUNCE body with a body that is not STATIC.
C7_PairsOnlyOfCollidingTypes ==
  \A W \in Worlds : \A p \in Pairs(W) :
    LET bodyA == W.body[p.bodyA]
        bodyB == W.body[p.bodyB]
    IN  /\ bodyA.type # bodyB.type
        /\ bodyA.type = BOUNCE => bodyB.type = STATIC
        /\ bodyB.type = BOUNCE => bodyA.type = STATIC
        /\ canCollide(bodyA, bodyB)

\* two registered bodies of one type, or a BOUNCE body and a body that is
\* not STATIC, share a region after the re-index stage
C7_Witness ==
  \E W \in Indexed : \E a \in Registered(W), b \in Registered(W) :
    /\ a # b
    /\ SharedRegions(W, a, b) # {}
    /\ \/ W.body[a].type = W.body[b].type
       \/ W.body[a].type = BOUNCE /\ W.body[b].type # STATIC

\* C2: after the re-index stage of a sub-step, two distinct registered
\* bodies have their pair key in grid.pairs exactly when canCollide holds of
\* them and they share a region of grid.hash; no key is held twice; and a
\* pair of bodies that share a region before and after the re-index keeps
\* its key (only its count may change).
C2_PairsAreTheCandidates ==
  \A s \in Steps :
    LET W == s.indexed
    IN  /\ \A a \in Registered(W), b \in Registered(W) :
             a # b =>
               (getPairId(a, b) \in PairKeys(W)
                  <=> /\ canCollide(W.body[a], W.body[b])
                      /\ SharedRegions(W, a, b) # {})
        /\ \A i \in 1..Len(W.pairs), j \in 1..Len(W.pairs) :
             W.pairs[i].id = W.pairs[j].id => i = j
        /\ \A p \in Pairs(W) : {p.bodyA, p.bodyB} \subseteq Registered(W)
        /\ \A a \in Registered(W), b \in Registered(W) :
             /\ a # b
             /\ SharedRegions(s.purged, a, b) # {}
             /\ SharedRegions(W, a, b) # {}
             => (getPairId(a, b) \in PairKeys(s.purged)
                   <=> getPairId(a, b) \in PairKeys(W))

\* the re-index stage moved a body out of one of two regions it shared with
\* another body: the pair keeps its key, its count goes from 2 to 1
C2_Witness ==
  \E s \in Steps : \E p \in Pairs(s.purged), q \in Pairs(s.indexed) :
    /\ p.id = q.id
    /\ p.count = 2
    /\ q.count = 1
    /\ \E a \in {p.bodyA, p.bodyB} :
         s.purged.body[a].regions # s.indexed.body[a].regions

\* a bullet and the body its ownerId names
IsOwnerPair(W, a, b) ==
  \/ W.body[a].type = BULLET /\ W.body[a].ownerId = b
  \/ W.body[b].type = BULLET /\ W.body[b].ownerId = a

\* C6: grid.pairs never holds a pair of a bullet and the body its ownerId
\* names, and no overlap or isHit record returned by World.update names both.
C6_BulletNeverMeetsOwner ==
  /\ \A W \in Worlds : \A p \in Pairs(W) : ~IsOwnerPair(W, p.bodyA, p.bodyB)
  /\ \A i \in 1..Len(ret.sensors) :
       ret.sensors[i].kind \in {"overlap", "isHit"}
         => ~IsOwnerPair(ret.W, ret.sensors[i].bodyA, ret.sensors[i].bodyB)

\* after a re-index a registered bullet shares a region with its registered
\* owner and its swept box overlaps the owner's bounds
C6_Witness ==
  \E s \in Steps : \E a \in Registered(s.indexed), k \in Registered(s.indexed) :
    /\ a # k
    /\ IsOwnerPair(s.indexed, a, k)
    /\ SharedRegions(s.indexed, a, k) # {}
    /\ getIntersection(s.indexed.body[a].bounds, s.indexed.body[k].bounds).width > 0
    /\ getIntersection(s.indexed.body[a].bounds, s.indexed.body[k].bounds).height > 0

\* the bullets the narrow phase of a sub-step queued: those of its isHit
\* records whose bullet has no longOfLife or whose struck body is STATIC
HitRemovals(step) ==
  LET hits == SelectSeq(step.sensors, LAMBDA e :
                /\ e.kind = "isHit"
                /\ \/ step.W.body[e.bodyA].longOfLife = False
                   \/ step.W.body[e.bodyB].type = STATIC)
  IN  SubSeq([i \in 1..Len(hits) |-> hits[i].bodyA], 1, Len(hits))

\* C4 (as amended): the purge stage of every sub-step leaves bodiesToRemove
\* empty; when World.update returns after at least one sub-step,
\* bodiesToRemove holds exactly the bullets the narrow phase of the last
\* sub-step queued on a hit, in the order of their isHit records; a call
\* that runs no sub-step leaves bodiesToRemove as it was.
C4_QueueHoldsLastHits ==
  /\ \A s \in Steps : s.purged.bodiesToRemove = <<>>
  /\ ret.steps # <<>>
       => ret.W.bodiesToRemove = HitRemovals(ret.steps[Len(ret.steps)])
  /\ ret.steps = <<>> => ret.W.bodiesToRemove = ret.from.bodiesToRemove

\* the last sub-step of World.update queued a bullet on a hit, and the call
\* returned with that bullet in bodiesToRemove
C4_Witness ==
  /\ ret.steps # <<>>
  /\ ret.W.bodiesToRemove # <<>>
  /\ \E i \in 1..Len(ret.sensors) : ret.sensors[i].kind = "isHit"

\* C4 as claimed: after World.update returns, bodiesToRemove is empty.
C4_QueueEmptyAfterUpdate == ret.W.bodiesToRemove = <<>>

\* C9 (as amended): for a delta d with 0 < d <= 33, World.update(d) leaves
\* the world in exactly the state one call of World._update(d) leaves it in,
\* and returns the sensors that call returns.
C9_UpdateIsOneStep ==
  (0 < ret.delta /\ ret.delta <= maxDelta)
    => /\ ret.W = stepUpdate(ret.from, ret.delta).W
       /\ ret.sensors = stepUpdate(ret.from, ret.delta).sensors

\* World.update(33) returned after changing the world and with a sensor
C9_Witness ==
  /\ ret.delta = maxDelta
  /\ ret.W # ret.from
  /\ ret.sensors # <<>>

\* C9 as claimed: the same for every delta d <= 33, d = 0 included.
C9_UpdateIsOneStepFromZero ==
  ret.delta <= maxDelta
    => /\ ret.W = stepUpdate(ret.from, ret.delta).W
       /\ ret.sensors = stepUpdate(ret.from, ret.delta).sensors

\* a queue with every body once, at its first place
RECURSIVE Once(_)
Once(queue) ==
  IF queue = <<>> THEN <<>>
  ELSE LET front == Once(SubSeq(queue, 1, Len(queue) - 1))
           last == queue[Len(queue)]
       IN  IF Contains(front, last) THEN front ELSE Append(front, last)

\* the body is in no list of bodies, no hash list and no pair of the world
Absent(W, b) ==
  /\ ~Contains(W.bodies, b)
  /\ \A r \in DOMAIN W.hash : ~Contains(W.hash[r], b)
  /\ \A p \in Pairs(W) : p.bodyA # b /\ p.bodyB # b

\* the last call of World.update, had World.removeBody been called once for
\* each body it was called for
UpdateRemovedOnce ==
  update([ret.from EXCEPT !.bodiesToRemove = Once(ret.from.bodiesToRemove)], ret.delta)

\* C10 (as amended): when the next call of World.update runs a sub-step,
\* calling World.removeBody(b) several times before it leaves the world
\* (bodies, queue, hash, pairs and their counts, every body's fields) and the
\* returned sensors as calling it once does, and b is then in no list of
\* bodies, no hash list and no pair.
C10_RemoveBodyIdempotent ==
  ret.steps # <<>>
    => /\ ret.W = UpdateRemovedOnce.W
       /\ ret.sensors = UpdateRemovedOnce.sensors
       /\ \A i \in 1..Len(ret.from.bodiesToRemove) :
            Absent(ret.W, ret.from.bodiesToRemove[i])

\* World.removeBody was called twice for a registered body with a pair, and
\* the update that followed ran a sub-step and kept another body
C10_Witness ==
  /\ ret.steps # <<>>
  /\ Once(ret.from.bodiesToRemove) # ret.from.bodiesToRemove
  /\ \E i \in 1..Len(ret.from.bodiesToRemove) :
       \E p \in Pairs(ret.from) :
         ret.from.bodiesToRemove[i] \in {p.bodyA, p.bodyB}
  /\ ret.W.bodies # <<>>

\* C10 as claimed: the same after any next call of World.update.
C10_RemoveBodyIdempotentAnyUpdate ==
  /\ ret.W = UpdateRemovedOnce.W
  /\ ret.sensors = UpdateRemovedOnce.sensors
  /\ \A i \in 1..Len(ret.from.bodiesToRemove) :
       Absent(ret.W, ret.from.bodiesToRemove[i])

\* C5: countCollisionsFix.x and countCollisionsFix.y of a BOUNCE body stay
\* within 0..3, whatever update and updateCollision calls it is given.
C5_FixCountersWithinLimit ==
  \A W \in Worlds : \A id \in DOMAIN W.body :
    W.body[id].type = BOUNCE
      => /\ W.body[id].countCollisionsFix.x \in 0..BOUNCE_FIXES_LIMIT_X
         /\ W.body[id].countCollisionsFix.y \in 0..BOUNCE_FIXES_LIMIT_Y

\* both counters stand at 3 and updateCollision was called again on both
\* axes: it set force.x and force.y to 0 and left the counters
C5_Witness ==
  \E id \in BounceIds :
    /\ world.body[id].countCollisionsFix = Vec(3, 3)
    /\ world.body[id].force = Vec(0, 0)
    /\ world.body[id].moveDirectionY = 0

\* two sensor sequences with the same records in the same order, naming
\* corresponding bodies and the same hit points
SameSensors(a, b) ==
  /\ Len(a) = Len(b)
  /\ \A i \in 1..Len(a) :
       /\ a[i].kind = b[i].kind
       /\ TwinId(a[i].bodyA) = b[i].bodyA
       /\ TwinId(a[i].bodyB) = b[i].bodyB
       /\ a[i].point = b[i].point

\* C8: two worlds built by the same factory calls and given the same input
\* calls and deltas have, after every call, the same positions of
\* corresponding bodies, and every World.update returned the same sensors
\* (same kinds, corresponding bodies, same order, same hit points) in both.
C8_ReplayIsDeterministic ==
  /\ DOMAIN twin.world.body = { TwinId(id) : id \in DOMAIN world.body }
  /\ \A id \in DOMAIN world.body :
       world.body[id].position = twin.world.body[TwinId(id)].position
  /\ Registered(twin.world) = { TwinId(id) : id \in Registered(world) }
  /\ ret.delta = twin.ret.delta
  /\ SameSensors(ret.sensors, twin.ret.sensors)

\* a call of World.update moved a body and returned the hits of two bullets
C8_Witness ==
  /\ \E id \in DOMAIN ret.from.body :
       ret.from.body[id].position # ret.W.body[id].position
  /\ \E i \in 1..Len(ret.sensors), j \in 1..Len(ret.sensors) :
       /\ i < j
       /\ ret.sensors[i].kind = "isHit"
       /\ ret.sensors[j].kind = "isHit"
       /\ ret.sensors[i].bodyA # ret.sensors[j].bodyA
  /\ twin.ret.sensors # <<>>

\* the deltas of the sub-steps of the last call of World.update, in order
StepDeltasOf(steps) == [i \in 1..Len(steps) |-> steps[i].delta]

RECURSIVE SumOf(_)
SumOf(s) == IF s = <<>> THEN 0 ELSE s[1] + SumOf(Tail(s))

\* C11: a call of World.update with delta > 0 runs ceil(delta / 33)
\* sub-steps, each with a delta above 0 and at most 33, all but the last
\* with 33, and the deltas of the sub-steps add up to delta
C11_SubStepsSplitDelta ==
  ret.delta > 0 =>
    LET deltas == StepDeltasOf(ret.steps)
        n == Len(deltas)
    IN  /\ maxDelta * (n - 1) < ret.delta
        /\ ret.delta <= maxDelta * n
        /\ \A i \in 1..n : deltas[i] > 0 /\ deltas[i] <= maxDelta
        /\ \A i \in 1..(n - 1) : deltas[i] = maxDelta
        /\ SumOf(deltas) = ret.delta

\* update(100) ran the sub-steps 33, 33, 33, 1
C11_Witness ==
  ret.delta = 100 /\ StepDeltasOf(ret.steps) = <<33, 33, 33, 1>>

\* C12: every call of World.update returns
C12_UpdateTerminates == (loop.pc = "test") ~> (loop.pc = "returned")

\* the loop taken pass by pass returns what World.update returns, when it
\* returns
LoopAgreesWithUpdate ==
  loop.pc = "returned" =>
    /\ world = update(ret.from, ret.delta).W
    /\ ret.sensors = update(ret.from, ret.delta).sensors

\* the stage of a sub-step that emits a sensor record of this kind
Rank(kind) == IF kind = "isOutWorld" THEN 1 ELSE IF kind = "overlap" THEN 2 ELSE 3

\* the kinds of the records of a sensor list
Kinds(sensors) == { sensors[i].kind : i \in 1..Len(sensors) }

RECURSIVE ConcatSensors(_)
ConcatSensors(steps) ==
  IF steps = <<>> THEN <<>> ELSE steps[1].sensors \o ConcatSensors(Tail(steps))

\* C13: in the sensor list of a sub-step every isOutWorld record comes
\* before every overlap record, and every overlap record before every isHit
\* record; World.update returns the lists of its sub-steps one after the
\* other, in the order of the sub-steps
C13_SensorsInStageOrder ==
  /\ \A s \in Steps :
       \A i, j \in 1..Len(s.sensors) :
         i < j => Rank(s.sensors[i].kind) <= Rank(s.sensors[j].kind)
  /\ ret.sensors = ConcatSensors(ret.steps)

\* a sub-step reported a body out of the world, a sensor overlap and a hit
C13_Witness ==
  \E s \in Steps : Kinds(s.sensors) = {"isOutWorld", "overlap", "isHit"}

\* the world at the start of sub-step k of the last call of World.update
StepStart(k) == IF k = 1 THEN ret.from ELSE ret.steps[k - 1].W

\* the isOutWorld records of a sensor list that name the body id
OutRecords(sensors, id) ==
  { i \in 1..Len(sensors) : sensors[i].kind = "isOutWorld" /\ sensors[i].bodyA = id }

\* the position is strictly outside the bounds on some axis
StrictlyOutside(position, bounds) ==
  \/ position.x < bounds.min.x
  \/ position.x > bounds.max.x
  \/ position.y < bounds.min.y
  \/ position.y > bounds.max.y

\* the grid of W knows nothing of the body id
OffGrid(W, id) ==
  /\ ~W.body[id].hasRegions
  /\ \A region \in DOMAIN W.hash : ~Contains(W.hash[region], id)
  /\ \A p \in Pairs(W) : p.bodyA # id /\ p.bodyB # id

\* the bodies stage 1 of sub-step k integrates: those of world.bodies that
\* are not STATIC and not queued for removal
Integrated(k) ==
  { id \in Registered(StepStart(k)) :
      /\ StepStart(k).body[id].type # STATIC
      /\ ~Contains(StepStart(k).bodiesToRemove, id) }

\* sub-step k flags the body id as out of the world
Flagged(k, id) == OutRecords(ret.steps[k].sensors, id) # {}

\* C14, within one call of World.update: a sub-step gives one isOutWorld
\* record to each body it integrates whose position is then strictly outside
\* the bounds of the world, and none to any other body; stage 2 of the same
\* sub-step takes a flagged body out of world.bodies and out of the grid;
\* no body has two isOutWorld records
C14_FlaggedIffOutside ==
  /\ \A k \in 1..Len(ret.steps) :
       \A id \in DOMAIN StepStart(k).body :
         /\ Cardinality(OutRecords(ret.steps[k].sensors, id)) =
              IF /\ id \in Integrated(k)
                 /\ StrictlyOutside(ret.steps[k].integrated.body[id].position,
                                    ret.steps[k].integrated.bounds)
              THEN 1 ELSE 0
         /\ Flagged(k, id) =>
              /\ id \notin Registered(ret.steps[k].purged)
              /\ OffGrid(ret.steps[k].purged, id)
              /\ id \notin Registered(ret.W)
  /\ \A id \in DOMAIN ret.W.body : Cardinality(OutRecords(ret.sensors, id)) <= 1

\* C14, from call to call: a body taken out of world.bodies never comes
\* back, so that no later sub-step integrates it
C14_RemovedStaysOut ==
  [][\A id \in DOMAIN world.body :
       id \notin Registered(world) => id \notin Registered(world')]_vars

\* C14: a body is flagged as out of the world if and only if stage 1 has
\* integrated it and left its position strictly outside the bounds of the
\* world; a flagged body leaves world.bodies and the grid in stage 2 of the
\* same sub-step and never comes back, so that it is flagged at most once;
\* a STATIC body is never flagged
C14_OutOfWorldOnce == [] C14_FlaggedIffOutside /\ C14_RemovedStaysOut

\* a call of two sub-steps: in the first a body ends exactly on an edge of
\* the world and another has its box over an edge and its position inside,
\* neither is flagged; in the second a body is flagged
C14_Witness ==
  /\ Len(ret.steps) = 2
  /\ \E id \in Integrated(1) :
       /\ ret.steps[1].integrated.body[id].position.y = EdgeBounds.max.y
       /\ ~Flagged(1, id)
  /\ \E id \in Integrated(1) :
       /\ ret.steps[1].integrated.body[id].bounds.min.x < EdgeBounds.min.x
       /\ ret.steps[1].integrated.body[id].position.x > EdgeBounds.min.x
       /\ ~Flagged(1, id)
  /\ \E id \in Integrated(2) : Flagged(2, id)

\* the world W without the bodies in its removal queue that are not in
\* world.bodies
WithoutAbsent(W) ==
  [W EXCEPT !.bodiesToRemove = SelectSeq(W.bodiesToRemove, LAMBDA id : Contains(W.bodies, id))]

\* the last call of World.update left the world as it would have without
\* the calls of removeBody for bodies that were not in the world
AsWithoutAbsent ==
  /\ ret.W.bodies = update(WithoutAbsent(ret.from), ret.delta).W.bodies
  /\ ret.W.hash = update(WithoutAbsent(ret.from), ret.delta).W.hash
  /\ ret.W.pairs = update(WithoutAbsent(ret.from), ret.delta).W.pairs
  /\ ret.W.body = update(WithoutAbsent(ret.from), ret.delta).W.body

\* C15: World.removeBody of a body that is not in the world, one the world
\* has removed already or one it never created, changes nothing of what the
\* next call of World.update leaves, and no call throws
C15_RemoveAbsentIsNoOp ==
  /\ loop.pc # "threw"
  /\ AsWithoutAbsent

\* when no call throws, World.removeBody of a body that is not in the world
\* changes nothing of what the next call of World.update leaves
C15_NoOpUnlessThrown == loop.pc # "threw" => AsWithoutAbsent

\* the isHit records of the sub-step s
Hits(s) == { s.sensors[i] : i \in { j \in 1..Len(s.sensors) : s.sensors[j].kind = "isHit" } }

\* the body id is in world.bodies and in the grid of W
InGrid(W, id) ==
  /\ id \in Registered(W)
  /\ W.body[id].hasRegions
  /\ \A i \in 1..Len(W.body[id].regions) :
       /\ W.body[id].regions[i] \in DOMAIN W.hash
       /\ Contains(W.hash[W.body[id].regions[i]], id)

\* the hit h of the sub-step s is one of a bullet with a budget on a PLAYER
Survived(s, h) ==
  /\ s.W.body[h.bodyA].longOfLife # False
  /\ s.W.body[h.bodyB].type = PLAYER

\* C16, within a sub-step: stage 4 queues the bullet of a selected hit if
\* and only if the bullet has no longOfLife or the body struck is STATIC; a
\* bullet with a budget that strikes a PLAYER is in world.bodies and in the
\* grid when the sub-step returns
C16_QueuedIffSpentOrStatic ==
  \A s \in Steps : \A h \in Hits(s) :
    /\ Contains(s.detected.bodiesToRemove, h.bodyA)
         <=> (\/ s.detected.body[h.bodyA].longOfLife = False
              \/ s.detected.body[h.bodyB].type = STATIC)
    /\ Survived(s, h) => InGrid(s.W, h.bodyA)

\* the bullets with a budget that struck a PLAYER in the last sub-step of
\* the last call of World.update, and that the host has not removed since
Survivors ==
  IF ret.steps = <<>> THEN {}
  ELSE { h.bodyA : h \in { g \in Hits(ret.steps[Len(ret.steps)]) :
                            /\ Survived(ret.steps[Len(ret.steps)], g)
                            /\ ~Contains(world.bodiesToRemove, g.bodyA) } }

\* C16, from a sub-step to the next: stage 1 of the next sub-step moves the
\* bullet that survived its hit on by force * delta
C16_SurvivorIntegrated ==
  [][(ret' # ret /\ ret'.steps # <<>>) =>
       \A id \in Survivors :
         /\ ret'.steps[1].integrated.body[id].prevPosition = world.body[id].position
         /\ ret'.steps[1].integrated.body[id].position =
              Vec(world.body[id].position.x + world.body[id].force.x * ret'.steps[1].delta,
                  world.body[id].position.y + world.body[id].force.y * ret'.steps[1].delta)]_vars

\* C16: when stage 4 selects the hit of a bullet, the bullet is appended to
\* bodiesToRemove if and only if it has no longOfLife budget or the body it
\* struck is STATIC; a bullet with a budget that strikes a PLAYER is not
\* queued by the hit, stays in world.bodies and in the grid, and is
\* integrated by the sub-steps that follow
C16_HitQueuesBullet == [] C16_QueuedIffSpentOrStatic /\ C16_SurvivorIntegrated

\* a bullet with a budget has struck the PLAYER in the last sub-step, was
\* not queued, and is still in world.bodies and in the grid
C16_Witness ==
  /\ \E s \in Steps : \E h \in Hits(s) :
       /\ Survived(s, h)
       /\ ~Contains(s.detected.bodiesToRemove, h.bodyA)
       /\ InGrid(s.W, h.bodyA)
  /\ ret.steps # <<>>
  /\ Survivors # {}

\* the player of the scenario stands on the floor: isOnGround, no fall
\* timer, position.y = 160
Caught ==
  /\ world.body[1].isOnGround
  /\ world.body[1].fallTimer = False
  /\ world.body[1].position.y = P(160)

\* C17: the player created above the static floor has isOnGround = true
\* after finitely many calls of World.update(16); from then on, at every
\* return, position.y is 160, fallTimer is false and isOnGround is true
C17_FloorCatchesPlayer ==
  /\ <>(world.body[1].isOnGround)
  /\ [](world.body[1].isOnGround => []Caught)

\* the player created at (0, 0) has fallen for 26 calls, landed in the 27th
\* and stood through ten more
C17_Witness ==
  /\ ret.delta = CatchDelta
  /\ world.bounds = CatchBounds
  /\ world.body[1].lastGroundPositionY = 0
  /\ ops > 36
  /\ Caught

\* the isHit records of the last call of World.update, by their place in
\* the list it returned
HitsReturned == { i \in 1..Len(ret.sensors) : ret.sensors[i].kind = "isHit" }

\* the point (x, y), in points, of the isHit record h
HitAt(h, x, y) ==
  /\ h.point.x.n = P(x) * h.point.x.d
  /\ h.point.y.n = P(y) * h.point.y.d

\* C18: with the bullet created at (0, 0), the first call update(16)
\* returns no isHit record and leaves the bullet at (80, 0); the call
\* update(100) that follows returns exactly one isHit record, of the bullet
\* on the static, at the point (450, 0) of the static's min-X edge, and the
\* sub-step that finds the hit queues the bullet for removal
C18_BulletHitsStaticEdge ==
  /\ (ret.from = ShotWorld(0) /\ ret.delta = 16) =>
       /\ HitsReturned = {}
       /\ ret.W.body[2].position = Vec(P(80), 0)
  /\ (ret.from = update(ShotWorld(0), 16).W /\ ret.delta = 100) =>
       /\ Cardinality(HitsReturned) = 1
       /\ \A i \in HitsReturned :
            /\ ret.sensors[i].bodyA = 2
            /\ ret.sensors[i].bodyB = 1
            /\ ret.W.body[ret.sensors[i].bodyB].type = STATIC
            /\ HitAt(ret.sensors[i], 450, 0)
       /\ \E s \in Steps :
            /\ Hits(s) # {}
            /\ Contains(s.detected.bodiesToRemove, 2)

\* the call update(100) that follows update(16) has returned one isHit
\* record
C18_Witness ==
  /\ ret.from = update(ShotWorld(0), 16).W
  /\ ret.delta = 100
  /\ Len(ret.steps) = 4
  /\ HitsReturned # {}

\* the last call of World.update is update(100), it found the bullet at
\* (80, 0), and the bullet has hit in it
ShotFrom80 ==
  /\ ret.delta = 100
  /\ ret.from.body[2].position = Vec(P(80), 0)
  /\ \E i \in HitsReturned : ret.sensors[i].bodyA = 2

\* C19: the bullet at (80, 0) with force (5000, 0) is at (575, 0) after the
\* call update(100) in which it hits the static: the sub-steps of 33, 33
\* and 33 ms move it to 245, 410 and 575, the third finds the hit and queues
\* the bullet, and the fourth, of 1 ms, passes over the queued bullet
C19_BulletStopsAt575 ==
  ShotFrom80 =>
    /\ ret.W.body[2].position = Vec(P(575), 0)
    /\ ret.steps[3].W.body[2].position = Vec(P(575), 0)
    /\ Hits(ret.steps[3]) # {}
    /\ ret.steps[4].delta = 1
    /\ ~Contains(ret.W.bodies, 2)

\* C19 as the claim states it: the bullet at (80, 0) is at (580, 0) after
\* the call update(100) in which it hits the static
C19_BulletAt580 == ShotFrom80 => ret.W.body[2].position = Vec(P(580), 0)

\* the bullet left at (80, 0) by update(16) has hit in update(100)
C19_Witness ==
  /\ ShotFrom80
  /\ ret.from = update(ShotWorld(0), 16).W

\* the contacts of the sub-step s in which the bounce body 1 meets the
\* floor 2 from above: updateCollision is given a correction with y < 0
FloorContacts(s) ==
  { i \in 1..Len(s.collisions) :
      getCorrection(s.detected.body[1], s.detected.body[2],
                    s.collisions[i].intersection).y < 0 }

\* the magnitude of reboundSpeed is strictly smaller after each sub-step in
\* which the bounce body met the floor from above
C20_ReboundDecreases ==
  \A s \in Steps :
    FloorContacts(s) # {} =>
      Abs(s.W.body[1].reboundSpeed) < Abs(s.detected.body[1].reboundSpeed)

\* once countCollisionsFix.y is 3, force.y is 0
C20_ForceZeroAfterThree ==
  world.body[1].countCollisionsFix.y = BOUNCE_FIXES_LIMIT_Y => world.body[1].force.y = 0

\* once countCollisionsFix.y is 3, a call of World.update leaves the
\* position of the bounce body as it was
C20_AtRestAfterThree ==
  (ret.steps # <<>> /\ ret.from.body[1].countCollisionsFix.y = BOUNCE_FIXES_LIMIT_Y)
    => ret.W.body[1].position = ret.from.body[1].position

\* C20: for a bounce body launched above a static floor, the magnitude of
\* reboundSpeed strictly decreases on each floor contact; once three Y-axis
\* fixes have been applied force.y is 0, and the position of the body no
\* longer changes in later updates
C20_BounceSettles ==
  /\ C20_ReboundDecreases
  /\ C20_ForceZeroAfterThree
  /\ C20_AtRestAfterThree

\* what the third fix leaves: force.y is the reboundSpeed it has just
\* scaled, which is not 0, and no later call changes it
C20_ForceIsReboundAfterThree ==
  world.body[1].countCollisionsFix.y = BOUNCE_FIXES_LIMIT_Y
    => /\ world.body[1].force.y = world.body[1].reboundSpeed
       /\ world.body[1].force.y < 0

\* the player of the scenario is in a jump: jump() has started jumpTimer and
\* no contact has stopped it
Jumping(b) == b.jumpTimer # False

\* the height of the apex of the jump of the player b
Apex(b) == b.lastGroundPositionY - b.jumpDistance

\* C21, at every return: in a jump position.y is never above the apex
\* groundY - jumpDistance (never a smaller y), and is at the apex exactly
\* when jumpTimer = jumpCoef
C21_ApexBoundsJump ==
  Jumping(world.body[1]) =>
    /\ world.body[1].position.y >= Apex(world.body[1])
    /\ world.body[1].position.y = Apex(world.body[1])
         <=> world.body[1].jumpTimer = world.body[1].jumpCoef

\* C21, from an update to the next while the jump lasts: position.y
\* strictly decreases up to the apex and increases after it
C21_RisesThenFalls ==
  [][(/\ Jumping(world.body[1])
      /\ Jumping(world'.body[1])
      /\ world'.body[1].jumpTimer > world.body[1].jumpTimer)
     => /\ world'.body[1].jumpTimer <= world.body[1].jumpCoef
             => world'.body[1].position.y < world.body[1].position.y
        /\ world.body[1].jumpTimer >= world.body[1].jumpCoef
             => world'.body[1].position.y > world.body[1].position.y]_vars

\* C21: after jump() on a grounded player at y = groundY, with no other
\* contact, position.y never passes groundY - jumpDistance, equals it
\* exactly when jumpTimer = jumpCoef at the return of a sub-step, strictly
\* decreases while jumpTimer has not passed jumpCoef, and increases after
\* the apex until the next contact with the ground
C21_JumpApex == [] C21_ApexBoundsJump /\ C21_RisesThenFalls

\* the player with jumpDistance 40 (jumpCoef 200) at the apex, 40 above the
\* floor position 160, after ten calls of update(20)
C21_Witness ==
  /\ Jumping(world.body[1])
  /\ world.body[1].jumpTimer = world.body[1].jumpCoef
  /\ world.body[1].jumpTimer = 200
  /\ world.body[1].position.y = P(120)
  /\ world.body[1].lastGroundPositionY = P(160)

\* the player has come down from a jump onto the floor again
C21_Landed ==
  /\ ret.steps # <<>>
  /\ Jumping(ret.from.body[1])
  /\ ret.from.body[1].jumpTimer > ret.from.body[1].jumpCoef
  /\ world.body[1].isOnGround
  /\ world.body[1].position.y = P(160)

\* C22, the call: jump() on a player that is not on the ground changes no
\* field of the player, and nothing else of the world
C22_AirborneJumpIsNoOp ==
  [][(JumpJump /\ ~world.body[1].isOnGround) => world' = world]_vars

\* C22, the jump timer: while the player stays in the air no step restarts
\* jumpTimer
C22_TimerNotRestarted ==
  [][(/\ Jumping(world.body[1])
      /\ ~world.body[1].isOnGround
      /\ Jumping(world'.body[1]))
     => world'.body[1].jumpTimer >= world.body[1].jumpTimer]_vars

\* C22, the ground: isOnGround becomes true again only in a call of
\* World.update with a sub-step in which updateCollision is given a
\* correction with y < 0
C22_GroundedByContact ==
  [][(~world.body[1].isOnGround /\ world'.body[1].isOnGround)
     => \E k \in 1..Len(ret'.steps) : FloorContacts(ret'.steps[k]) # {}]_vars

\* C22: jump() called while isOnGround is false leaves every field of the
\* player unchanged; after a jump() that takes effect every further jump()
\* is a no-op until a contact with the floor has set isOnGround again
C22_NoDoubleJump ==
  /\ C22_AirborneJumpIsNoOp
  /\ C22_TimerNotRestarted
  /\ C22_GroundedByContact

\* the player is in mid-air, 32 ms or more into a jump, and the host can
\* still call jump()
C22_Witness ==
  /\ Jumping(world.body[1])
  /\ ~world.body[1].isOnGround
  /\ world.body[1].jumpTimer >= 32
  /\ ops < MaxJumpCalls

\* the bounds of the body b are those its position gives: position +
\* normalBounds for a PLAYER or BOUNCE body, the hull of prevPosition and
\* position for a BULLET
FreshBounds(b) ==
  IF b.type \in {PLAYER, BOUNCE}
  THEN b.bounds = Box(b.position.x + b.normalBounds.min.x,
                      b.position.y + b.normalBounds.min.y,
                      b.position.x + b.normalBounds.max.x,
                      b.position.y + b.normalBounds.max.y)
  ELSE IF b.type = BULLET
  THEN b.bounds = Box(Min(b.prevPosition.x, b.position.x),
                      Min(b.prevPosition.y, b.position.y),
                      Max(b.prevPosition.x, b.position.x),
                      Max(b.prevPosition.y, b.position.y))
  ELSE TRUE

PairIntersection(W, p) == getIntersection(W.body[p.bodyA].bounds, W.body[p.bodyB].bounds)

\* the candidate pairs of the sub-step s whose bodies touch exactly: the
\* intersection of their bounds has width 0 or height 0, and neither is
\* negative
Touching(s) ==
  { p \in Pairs(s.indexed) :
      /\ PairIntersection(s.indexed, p).width >= 0
      /\ PairIntersection(s.indexed, p).height >= 0
      /\ \/ PairIntersection(s.indexed, p).width = 0
         \/ PairIntersection(s.indexed, p).height = 0 }

\* the sub-step s has an overlap record of the pair p
Overlapped(s, p) ==
  \E i \in 1..Len(s.sensors) :
    /\ s.sensors[i].kind = "overlap"
    /\ {s.sensors[i].bodyA, s.sensors[i].bodyB} = {p.bodyA, p.bodyB}

\* the sub-step s has a contact of the pair p
Contacted(s, p) ==
  \E i \in 1..Len(s.collisions) :
    {s.collisions[i].bodyA, s.collisions[i].bodyB} = {p.bodyA, p.bodyB}

\* the sub-step s has an isHit record of the pair p
HitPair(s, p) ==
  \E h \in Hits(s) : {h.bodyA, h.bodyB} = {p.bodyA, p.bodyB}

\* the pair p has a sensor static, has a bullet
WithSensor(W, p) == W.body[p.bodyA].isSensor \/ W.body[p.bodyB].isSensor
WithBullet(W, p) == W.body[p.bodyA].type = BULLET \/ W.body[p.bodyB].type = BULLET

\* C24: in stage 4 a candidate pair whose bodies touch exactly is treated
\* as one whose bodies overlap: with a sensor static it produces an overlap
\* record, and with neither a sensor nor a bullet it produces a contact,
\* with the intersection of width 0 or height 0, for which the correction
\* is (0, 0)
C24_TouchingPairsCollide ==
  \A s \in Steps : \A p \in Touching(s) :
    /\ WithSensor(s.indexed, p) => Overlapped(s, p)
    /\ (~WithSensor(s.indexed, p) /\ ~WithBullet(s.indexed, p)) =>
         \E i \in 1..Len(s.collisions) :
           /\ s.collisions[i].bodyA = p.bodyA
           /\ s.collisions[i].bodyB = p.bodyB
           /\ s.collisions[i].intersection = PairIntersection(s.indexed, p)
           /\ \A a, b \in {p.bodyA, p.bodyB} :
                (s.detected.body[a].type # STATIC /\ s.detected.body[b].type = STATIC)
                  => getCorrection(s.detected.body[a], s.detected.body[b],
                                   s.collisions[i].intersection) = Vec(0, 0)

\* C24 as the claim states it: a candidate pair whose bodies touch exactly
\* produces no sensor record, no hit and no contact
C24_TouchingPairsIgnored ==
  \A s \in Steps : \A p \in Touching(s) :
    /\ ~Overlapped(s, p)
    /\ ~HitPair(s, p)
    /\ ~Contacted(s, p)

\* a sub-step has a contact of height 0 between a player and a static body
C24_Witness ==
  \E s \in Steps : \E p \in Touching(s) :
    /\ Contacted(s, p)
    /\ PairIntersection(s.indexed, p).height = 0
    /\ PairIntersection(s.indexed, p).width > 0
    /\ PLAYER \in {s.indexed.body[p.bodyA].type, s.indexed.body[p.bodyB].type}

\* the bullet b flies along an axis: one component of its force is 0, the
\* other is not
Horizontal(b) == b.force.y = 0 /\ b.force.x # 0
Vertical(b) == b.force.x = 0 /\ b.force.y # 0

\* the bodies that the narrow phase of the sub-step s gives the bullet id as
\* targets, with the line of the bullet strictly between the edges of the
\* target that lie along it
AxialTargets(s, id) ==
  { p \in Pairs(s.indexed) :
      /\ id \in {p.bodyA, p.bodyB}
      /\ ~WithSensor(s.indexed, p)
      /\ PairIntersection(s.indexed, p).width >= 0
      /\ PairIntersection(s.indexed, p).height >= 0
      /\ \A t \in {p.bodyA, p.bodyB} \ {id} :
           IF Horizontal(s.indexed.body[id])
           THEN /\ s.indexed.body[t].bounds.min.y < s.indexed.body[id].position.y
                /\ s.indexed.body[id].position.y < s.indexed.body[t].bounds.max.y
           ELSE /\ s.indexed.body[t].bounds.min.x < s.indexed.body[id].position.x
                /\ s.indexed.body[id].position.x < s.indexed.body[t].bounds.max.x }

\* the isHit record h of the sub-step s lies on an edge of the body struck
\* that is across the flight of the bullet, on the line of the bullet
OnCrossEdge(s, h) ==
  IF Horizontal(s.indexed.body[h.bodyA])
  THEN /\ \/ h.point.x.n = s.indexed.body[h.bodyB].bounds.min.x * h.point.x.d
          \/ h.point.x.n = s.indexed.body[h.bodyB].bounds.max.x * h.point.x.d
       /\ h.point.y.n = s.indexed.body[h.bodyA].position.y * h.point.y.d
  ELSE /\ \/ h.point.y.n = s.indexed.body[h.bodyB].bounds.min.y * h.point.y.d
          \/ h.point.y.n = s.indexed.body[h.bodyB].bounds.max.y * h.point.y.d
       /\ h.point.x.n = s.indexed.body[h.bodyA].position.x * h.point.x.d

\* C25: a bullet whose force is along an axis produces an isHit record in
\* every sub-step in which the narrow phase gives it a target that its line
\* crosses strictly between the target's edges along the flight; the point
\* of the hit is on an edge of the body struck across the flight
C25_AxialBulletHits ==
  \A s \in Steps : \A id \in Registered(s.indexed) :
    (/\ s.indexed.body[id].type = BULLET
     /\ Horizontal(s.indexed.body[id]) \/ Vertical(s.indexed.body[id]))
    => /\ AxialTargets(s, id) # {} => \E h \in Hits(s) : h.bodyA = id
       /\ \A h \in Hits(s) : h.bodyA = id => OnCrossEdge(s, h)

\* C25 as the claim states it: no isHit record is of a bullet whose force
\* is along an axis
C25_AxialBulletNeverHits ==
  \A s \in Steps : \A h \in Hits(s) :
    /\ s.indexed.body[h.bodyA].force.x # 0
    /\ s.indexed.body[h.bodyA].force.y # 0

\* the bullet shot down at the static has hit its top edge, at (520, -50)
C25_Witness ==
  \E s \in Steps : \E h \in Hits(s) :
    /\ Vertical(s.indexed.body[h.bodyA])
    /\ AxialTargets(s, h.bodyA) # {}
    /\ HitAt(h, 520, -50)

\* the types of the two bodies of the pair p of the world W
PairTypes(W, p) == {W.body[p.bodyA].type, W.body[p.bodyB].type}

\* the bodies a and b of world.bodies of W are in a common region of the
\* grid
ShareRegion(W, a, b) ==
  /\ W.body[a].hasRegions
  /\ W.body[b].hasRegions
  /\ \E i \in 1..Len(W.body[a].regions) : Contains(W.body[b].regions, W.body[a].regions[i])

\* C26: the candidate pairs of the grid are of a PLAYER and a STATIC body,
\* of a BOUNCE and a STATIC body, of a BULLET and a PLAYER or of a BULLET
\* and a STATIC body, and of no other two types: a BOUNCE body is paired
\* with neither a BULLET nor a PLAYER
C26_PairTypes ==
  \A W \in Worlds : \A p \in Pairs(W) :
    PairTypes(W, p) \in {{PLAYER, STATIC}, {BOUNCE, STATIC}, {BULLET, PLAYER}, {BULLET, STATIC}}

\* C26 as the claim states it, in what it says of BULLET and BOUNCE: a
\* bullet and a BOUNCE body that the grid holds in a common region are a
\* candidate pair
C26_BulletPairsWithBounce ==
  \A s \in Steps : \A a, b \in Registered(s.indexed) :
    (/\ s.indexed.body[a].type = BULLET
     /\ s.indexed.body[b].type = BOUNCE
     /\ ShareRegion(s.indexed, a, b))
    => \E p \in Pairs(s.indexed) : {p.bodyA, p.bodyB} = {a, b}

\* the grid holds a BOUNCE body and a STATIC body as a candidate pair
C26_Witness ==
  \E p \in Pairs(world) : PairTypes(world, p) = {BOUNCE, STATIC}

\* the grid holds a candidate pair of each of the other three kinds
C26_PlayerStatic == \E p \in Pairs(world) : PairTypes(world, p) = {PLAYER, STATIC}
C26_BulletPlayer == \E p \in Pairs(world) : PairTypes(world, p) = {BULLET, PLAYER}
C26_BulletStatic == \E p \in Pairs(world) : PairTypes(world, p) = {BULLET, STATIC}

\* the places of the isHit records in the sensor list of the sub-step s
HitPlaces(s) == { i \in 1..Len(s.sensors) : s.sensors[i].kind = "isHit" }

\* the place in grid.pairs of the first candidate pair of the bullet id
\* that gives it a target in the narrow phase of the sub-step s; 0 for none
FirstPair(s, id) ==
  LET places == { i \in 1..Len(s.indexed.pairs) :
                    /\ id \in {s.indexed.pairs[i].bodyA, s.indexed.pairs[i].bodyB}
                    /\ ~WithSensor(s.indexed, s.indexed.pairs[i])
                    /\ PairIntersection(s.indexed, s.indexed.pairs[i]).width >= 0
                    /\ PairIntersection(s.indexed, s.indexed.pairs[i]).height >= 0 }
  IN  IF places = {} THEN 0 ELSE CHOOSE i \in places : \A j \in places : i <= j

\* C27: within one sub-step the isHit records of different bullets are in
\* the ascending order of the ids of the bullets, whatever the order of
\* their candidate pairs in grid.pairs
C27_HitsInIdOrder ==
  \A s \in Steps : \A i, j \in HitPlaces(s) :
    i < j => s.sensors[i].bodyA < s.sensors[j].bodyA

\* C27 as the claim states it: within one sub-step the isHit records of
\* different bullets are in the order of the first candidate pairs of the
\* bullets in grid.pairs
C27_HitsInPairOrder ==
  \A s \in Steps : \A i, j \in HitPlaces(s) :
    i < j => FirstPair(s, s.sensors[i].bodyA) < FirstPair(s, s.sensors[j].bodyA)

\* both bullets hit in one sub-step, in which the pair of the bullet 3 comes
\* before the pair of the bullet 2 in grid.pairs
C27_Witness ==
  \E s \in Steps :
    /\ Cardinality(HitPlaces(s)) = 2
    /\ FirstPair(s, 3) > 0
    /\ FirstPair(s, 3) < FirstPair(s, 2)

\* the players of the world W that are in world.bodies
PlayersOf(W) ==
  { id \in DOMAIN W.body : W.body[id].type = PLAYER /\ Contains(W.bodies, id) }

Falling(b) == b.fallTimer # False

\* the number of the states on-ground, jumping and falling the player b is in
VerticalStates(b) ==
  (IF b.isOnGround THEN 1 ELSE 0) + (IF Jumping(b) THEN 1 ELSE 0)
    + (IF Falling(b) THEN 1 ELSE 0)

\* the world of the sub-step s on which afterUpdate is called
Corrected(s) == correctionPositions(s.detected, s.collisions)

\* C28, in every state and after every stage of a sub-step: jumpTimer and
\* fallTimer are never both running, and a player on the ground has neither
C28_TimersExclusive ==
  \A W \in Worlds : \A id \in PlayersOf(W) :
    /\ ~(Jumping(W.body[id]) /\ Falling(W.body[id]))
    /\ W.body[id].isOnGround => ~Jumping(W.body[id]) /\ ~Falling(W.body[id])

\* C28, when a sub-step returns: every player of world.bodies is in exactly
\* one of the states on-ground, jumping and falling
C28_OneStateAtReturn ==
  \A s \in Steps : \A id \in PlayersOf(s.W) : VerticalStates(s.W.body[id]) = 1

\* C28, afterUpdate: a player in the air with neither timer running leaves
\* the sub-step with fallTimer = 0 and lastGroundPositionY = position.y
C28_FallArmed ==
  \A s \in Steps : \A id \in PlayersOf(s.W) :
    VerticalStates(Corrected(s).body[id]) = 0
      => /\ s.W.body[id].fallTimer = 0
         /\ s.W.body[id].lastGroundPositionY = s.W.body[id].position.y

\* C28: the vertical state machine of the player: the timers are never
\* both running, a player on the ground has neither, and at the return of
\* every sub-step every player is in exactly one of the three states,
\* afterUpdate having started the fall of a player in none of them
C28_VerticalStateMachine ==
  /\ C28_TimersExclusive
  /\ C28_OneStateAtReturn
  /\ C28_FallArmed

\* a call of World.update that a player sent falling by afterUpdate enters
\* and leaves on the ground
C28_Witness ==
  /\ ret.steps # <<>>
  /\ \E id \in PlayersOf(world) \cap PlayersOf(ret.from) :
       /\ Falling(ret.from.body[id])
       /\ ret.from.body[id].fallTimer > 0
       /\ world.body[id].isOnGround

\* a sub-step in which afterUpdate starts the fall of a player
C28_Armed ==
  \E s \in Steps : \E id \in PlayersOf(s.W) : VerticalStates(Corrected(s).body[id]) = 0

\* the step is the call move(dir) on the player 1
MoveCall(dir) ==
  /\ ops' = ops + 1
  /\ ret' = ret
  /\ world' = [world EXCEPT !.body[1] = move(world.body[1], dir)]

\* the step is a call jump() on the player 1 that takes effect
JumpCall ==
  /\ ops' = ops + 1
  /\ ret' = ret
  /\ world.body[1].isOnGround
  /\ world' = [world EXCEPT !.body[1] = jump(world.body[1])]

\* C29: move(dir) on the ground sets forceX to moveSpeed * dir
C29_GroundMoveFull ==
  [][\A dir \in {-1, 1} :
       MoveCall(dir) /\ world.body[1].isOnGround
         => /\ world'.body[1].forceX = world.body[1].moveSpeed * dir
            /\ world'.body[1].jumpInitDir = world.body[1].jumpInitDir]_vars

\* C29: move(d) in the air with jumpInitDir = d sets forceX to moveSpeed * d
\* and keeps jumpInitDir
C29_AirMoveWithJump ==
  [][\A dir \in {-1, 1} :
       MoveCall(dir) /\ ~world.body[1].isOnGround /\ world.body[1].jumpInitDir = dir
         => /\ world'.body[1].forceX = world.body[1].moveSpeed * dir
            /\ world'.body[1].jumpInitDir = dir]_vars

\* C29: move(dir) in the air with jumpInitDir other than dir sets forceX to
\* half of moveSpeed * dir and clears jumpInitDir
C29_AirMoveAgainstJump ==
  [][\A dir \in {-1, 1} :
       MoveCall(dir) /\ ~world.body[1].isOnGround /\ world.body[1].jumpInitDir # dir
         => /\ 2 * world'.body[1].forceX = world.body[1].moveSpeed * dir
            /\ world'.body[1].jumpInitDir = 0]_vars

\* C29: jump() taken with forceX of direction d leaves jumpInitDir = d
C29_JumpCommits ==
  [][JumpCall /\ world.body[1].forceX # 0
       => /\ world'.body[1].jumpInitDir = Sign(world.body[1].forceX)
          /\ ~world'.body[1].isOnGround]_vars

\* C29: jumpInitDir is set to a direction only by a jump() from the ground:
\* once cleared it stays cleared until the player has landed
C29_ClearedUntilLanded ==
  [][(world'.body[1].jumpInitDir # 0
        /\ world'.body[1].jumpInitDir # world.body[1].jumpInitDir)
       => JumpCall /\ world'.body[1].jumpInitDir = Sign(world.body[1].forceX)]_vars

C29_WallClears ==
  /\ Jumping(world.body[1])
  /\ world.body[1].forceX = world.body[1].moveSpeed
  /\ world.body[1].jumpInitDir = 0

\* the player in its jump at the full speed, with jumpInitDir kept
C29_FullInAir ==
  /\ Jumping(world.body[1])
  /\ world.body[1].forceX = -world.body[1].moveSpeed
  /\ world.body[1].jumpInitDir = -1
  /\ ret.steps # <<>>
  /\ ret.from.body[1].forceX = 0

\* the candidate pairs of the sub-step s with a sensor static whose bounds
\* overlap or touch those of the other body
SensorPairs(s) ==
  { p \in Pairs(s.indexed) :
      /\ WithSensor(s.indexed, p)
      /\ PairIntersection(s.indexed, p).width >= 0
      /\ PairIntersection(s.indexed, p).height >= 0 }

\* the other body of the pair p with a sensor static
Sensed(W, p) == IF W.body[p.bodyA].isSensor THEN p.bodyB ELSE p.bodyA

\* bulletsTargets at the end of the first loop of detectCollisions in the
\* sub-step s
bulletsTargets(s) ==
  DetectPairsFrom(s.indexed, [sensors |-> <<>>, targets |-> <<>>,
                              collisions |-> <<>>], 1).targets

\* the places in the sensor list of the sub-step s of the overlap records
\* of the pair p
OverlapPlaces(s, p) ==
  { i \in 1..Len(s.sensors) :
      /\ s.sensors[i].kind = "overlap"
      /\ s.sensors[i].bodyA = p.bodyA
      /\ s.sensors[i].bodyB = p.bodyB }

\* the body id is in no contact of the sub-step s
Uncontacted(s, id) ==
  \A i \in 1..Len(s.collisions) : id \notin {s.collisions[i].bodyA, s.collisions[i].bodyB}

\* C30: in every sub-step a candidate pair with a sensor static whose bounds
\* overlap gives exactly one {bodyA, bodyB} record and nothing else: no
\* contact, so that a body in no other contact is left where it was by the
\* corrections; the sensor is no target of a bullet and is in no isHit
\* record; and a bullet with no isHit in the sub-step is not queued for
\* removal by stage 4
C30_SensorPairOnlyReports ==
  \A s \in Steps : \A p \in SensorPairs(s) :
    LET other == Sensed(s.indexed, p)
        sensor == CHOOSE id \in {p.bodyA, p.bodyB} : id # other
    IN  /\ Cardinality(OverlapPlaces(s, p)) = 1
        /\ ~Contacted(s, p)
        /\ Uncontacted(s, other) => Corrected(s).body[other] = s.detected.body[other]
        /\ \A b \in DOMAIN bulletsTargets(s) : ~Contains(bulletsTargets(s)[b], sensor)
        /\ ~HitPair(s, p)
        /\ (\A h \in Hits(s) : h.bodyA # other)
             => (Contains(s.detected.bodiesToRemove, other)
                   => Contains(s.indexed.bodiesToRemove, other))

\* a sub-step in which a bullet overlaps a sensor static
C30_Witness ==
  \E s \in Steps : \E p \in SensorPairs(s) : WithBullet(s.indexed, p)

\* a sub-step in which a player overlaps a sensor static
C30_PlayerSensed ==
  \E s \in Steps : \E p \in SensorPairs(s) :
    s.indexed.body[Sensed(s.indexed, p)].type = PLAYER

\* the world of the sub-step s on which the contact k of stage 5 is resolved
BeforeContact(s, k) == correctionPositions(s.detected, SubSeq(s.collisions, 1, k - 1))

\* the resolved and the static body of the contact k of the sub-step s
ResolvedOf(s, k) ==
  LET W == BeforeContact(s, k)
      bodyA == W.body[s.collisions[k].bodyA]
  IN  IF bodyA.type = PLAYER \/ bodyA.type = BOUNCE
      THEN bodyA ELSE W.body[s.collisions[k].bodyB]

StaticOf(s, k) ==
  LET W == BeforeContact(s, k)
      bodyA == W.body[s.collisions[k].bodyA]
  IN  IF bodyA.type = PLAYER \/ bodyA.type = BOUNCE
      THEN W.body[s.collisions[k].bodyB] ELSE bodyA

\* the correction passed to updateCollision and setPosition for the
\* contact k of the sub-step s
CorrectionOf(s, k) ==
  getCorrection(ResolvedOf(s, k), StaticOf(s, k), s.collisions[k].intersection)

\* the contacts of the sub-step s
Contacts(s) == 1..Len(s.collisions)

\* C31: the correction of every contact of stage 5 has at most one
\* component other than 0, and a component other than 0 points from the
\* static body to the resolved one: it is negative only if the position of
\* the resolved body is below that of the static one on that axis, and
\* positive only if it is not; the resolved body is moved by exactly it
C31_CorrectionPointsAway ==
  \A s \in Steps : \A k \in Contacts(s) :
    LET c == CorrectionOf(s, k)
        resolved == ResolvedOf(s, k)
        static == StaticOf(s, k)
        after == BeforeContact(s, k + 1).body[resolved.id]
    IN  /\ c.x = 0 \/ c.y = 0
        /\ c.x < 0 => resolved.position.x < static.position.x
        /\ c.x > 0 => resolved.position.x >= static.position.x
        /\ c.y < 0 => resolved.position.y < static.position.y
        /\ c.y > 0 => resolved.position.y >= static.position.y
        /\ after.position = Vec(resolved.position.x + c.x, resolved.position.y + c.y)

\* contacts corrected to the left, to the right, up and down
C31_Left == \E s \in Steps : \E k \in Contacts(s) : CorrectionOf(s, k).x < 0
C31_Right == \E s \in Steps : \E k \in Contacts(s) : CorrectionOf(s, k).x > 0
C31_Up == \E s \in Steps : \E k \in Contacts(s) : CorrectionOf(s, k).y < 0
C31_Down == \E s \in Steps : \E k \in Contacts(s) : CorrectionOf(s, k).y > 0

\* a contact whose two overlaps are both positive and of which one is kept
C31_Witness ==
  \E s \in Steps : \E k \in Contacts(s) :
    /\ s.collisions[k].intersection.width > 0
    /\ s.collisions[k].intersection.height > 0
    /\ CorrectionOf(s, k) # Vec(0, 0)

\* the contacts of the sub-step s of which the body id is one of the bodies
ContactsOf(s, id) ==
  { k \in Contacts(s) : id \in {s.collisions[k].bodyA, s.collisions[k].bodyB} }

\* the intersection of the resolved and the static body of the contact k of
\* the sub-step s, after the correction of the contact and with the bounds
\* of the resolved body refreshed
ResolvedIntersection(s, k) ==
  getIntersection(
    updateBounds(BeforeContact(s, k + 1).body[ResolvedOf(s, k).id]).bounds,
    StaticOf(s, k).bounds)

\* the only contacts of their resolved bodies in the sub-step s, with a
\* correction other than (0, 0)
SingleContacts(s) ==
  { k \in Contacts(s) :
      /\ ContactsOf(s, ResolvedOf(s, k).id) = {k}
      /\ CorrectionOf(s, k) # Vec(0, 0) }

\* C32: when a PLAYER or BOUNCE body has a single contact in a sub-step and
\* its correction is not (0, 0), then after the body is moved by the
\* correction and its bounds are refreshed the intersection of the two
\* boxes is exactly 0 on the corrected axis
C32_CorrectionResolves ==
  \A s \in Steps : \A k \in SingleContacts(s) :
    /\ CorrectionOf(s, k).x # 0 => ResolvedIntersection(s, k).width = 0
    /\ CorrectionOf(s, k).y # 0 => ResolvedIntersection(s, k).height = 0

\* a single contact with a correction along X, along Y
C32_AlongX == \E s \in Steps : \E k \in SingleContacts(s) : CorrectionOf(s, k).x # 0
C32_AlongY == \E s \in Steps : \E k \in SingleContacts(s) : CorrectionOf(s, k).y # 0

\* the extent of the resolved body of the contact k of the sub-step s
\* reaches beyond the static body on both sides of the axis of the correction
Spans(s, k) ==
  LET r == ResolvedOf(s, k).bounds
      t == StaticOf(s, k).bounds
  IN  IF CorrectionOf(s, k).x # 0
      THEN r.min.x < t.min.x /\ t.max.x < r.max.x
      ELSE r.min.y < t.min.y /\ t.max.y < r.max.y

\* C32, where the resolved body does not reach beyond the static body on
\* both sides of the corrected axis: the correction of a single contact
\* leaves the intersection exactly 0 on that axis
C32_ResolvesUnlessSpanning ==
  \A s \in Steps : \A k \in SingleContacts(s) :
    ~Spans(s, k) =>
      /\ CorrectionOf(s, k).x # 0 => ResolvedIntersection(s, k).width = 0
      /\ CorrectionOf(s, k).y # 0 => ResolvedIntersection(s, k).height = 0

\* a single contact of a body that spans the static body on the corrected
\* axis, and that still overlaps it after the correction
C32_StillOverlaps ==
  \E s \in Steps : \E k \in SingleContacts(s) :
    /\ Spans(s, k)
    /\ ResolvedIntersection(s, k).width > 0
    /\ ResolvedIntersection(s, k).height > 0

\* the player created at (0, -10) over the static body of 10x10 leaves the
\* first call of World.update at (0, -20), 5 points inside the static body
C32_PlayerLeftInside ==
  /\ ops = 1
  /\ ret.from.body[1].type = PLAYER
  /\ ret.from.body[1].position = Vec(0, P(-10))
  /\ ret.from.body[2].size.width = P(10)
  /\ CorrectionOf(ret.steps[1], 1) = Vec(0, P(-10))
  /\ world.body[1].position = Vec(0, P(-20))
  /\ ResolvedIntersection(ret.steps[1], 1).height = P(5)

\* the step is the call updateCollision(correction) on the bounce body 1
CollisionCall(correction) ==
  /\ ops' = ops + 1
  /\ world' = [world EXCEPT !.body[1] = bounceUpdateCollision(world.body[1], correction)]

\* C33: countCollisionsFix.x of a BOUNCE body never equals 4: the X path of
\* updateCollision adds 1 to the counter only while it is below 3, and a
\* contact that finds it at 3 sets force.x to 0 and leaves it at 3
C33_CounterXStopsAtLimit ==
  /\ [](world.body[1].countCollisionsFix.x # BOUNCE_FIXES_LIMIT_X + 1)
  /\ [][\A correction \in Corrections :
          CollisionCall(correction) =>
            IF world.body[1].countCollisionsFix.x < BOUNCE_FIXES_LIMIT_X
            THEN world'.body[1].countCollisionsFix.x = world.body[1].countCollisionsFix.x + 1
            ELSE /\ world'.body[1].countCollisionsFix.x = BOUNCE_FIXES_LIMIT_X
                 /\ world'.body[1].force.x = 0]_vars

\* C33 as the claim states it: the X path of updateCollision takes the
\* counter past 3, to 4. The counter changes only in updateCollision, by 1
\* and by the same amount whatever the correction, so that a state with
\* countCollisionsFix.x = 4 is reachable exactly if the contact that finds
\* the counter at 3 adds 1 to it
C33_CounterXReachesFour ==
  [][\A correction \in Corrections :
       (CollisionCall(correction)
          /\ world.body[1].countCollisionsFix.x = BOUNCE_FIXES_LIMIT_X)
         => world'.body[1].countCollisionsFix.x = BOUNCE_FIXES_LIMIT_X + 1]_vars

\* the bounce body has had a contact with its X counter already at 3
C33_Witness ==
  /\ world.body[1].countCollisionsFix.x = BOUNCE_FIXES_LIMIT_X
  /\ world.body[1].force.x = 0
  /\ ops > BOUNCE_FIXES_LIMIT_X

\* the step is the call update(delta) on the bounce body 1
BounceUpdateCall(delta) ==
  /\ ops' = ops + 1
  /\ world' = [world EXCEPT !.body[1] = bounceUpdate(world.body[1], delta)]

\* C34: countCollisionsFix.x and countCollisionsFix.y never decrease
C34_CountersGrow ==
  [][/\ world'.body[1].countCollisionsFix.x >= world.body[1].countCollisionsFix.x
     /\ world'.body[1].countCollisionsFix.y >= world.body[1].countCollisionsFix.y]_vars

\* C34: the X counter advances on every contact, whatever the correction,
\* while it is below 3; the Y counter advances only on a contact with
\* correction.y < 0
C34_ContactsCount ==
  [][/\ \A correction \in Corrections :
          (CollisionCall(correction)
             /\ world.body[1].countCollisionsFix.x < BOUNCE_FIXES_LIMIT_X)
            => world'.body[1].countCollisionsFix.x = world.body[1].countCollisionsFix.x + 1
     /\ world'.body[1].countCollisionsFix.y # world.body[1].countCollisionsFix.y
          => \E correction \in Corrections :
               correction.y < 0 /\ CollisionCall(correction)]_vars

\* C34: with the X counter at 3 BodyBounce.update leaves position.x, and
\* with the Y counter at 3 it leaves position.y, force.y and moveDirectionY
C34_PinnedAtLimit ==
  [][\A delta \in BounceDeltas :
       BounceUpdateCall(delta) =>
         /\ world.body[1].countCollisionsFix.x = BOUNCE_FIXES_LIMIT_X
              => world'.body[1].position.x = world.body[1].position.x
         /\ world.body[1].countCollisionsFix.y = BOUNCE_FIXES_LIMIT_Y
              => /\ world'.body[1].position.y = world.body[1].position.y
                 /\ world'.body[1].force.y = world.body[1].force.y
                 /\ world'.body[1].moveDirectionY = world.body[1].moveDirectionY]_vars

\* C34: a bounce body is integrated along X through at most 3 contacts of
\* any kind, and along Y through at most 3 contacts with correction.y < 0:
\* the counters never decrease, the X counter advances on every contact
\* while below 3 and the Y counter only on a contact with correction.y < 0,
\* and update leaves the axis of a counter at 3 as it was
C34_BouncePinning ==
  /\ C34_CountersGrow
  /\ C34_ContactsCount
  /\ C34_PinnedAtLimit

\* the end of C34 as the claim states it, for the axis Y: after 3 contacts
\* of any kind (the X counter, which counts every contact, is at 3) the
\* body is no longer integrated along Y
C34_PinnedOnYAfterContacts ==
  [][\A delta \in BounceDeltas :
       (BounceUpdateCall(delta)
          /\ world.body[1].countCollisionsFix.x = BOUNCE_FIXES_LIMIT_X)
         => world'.body[1].position.y = world.body[1].position.y]_vars

\* C34 as the claim states it: every bounce body is integrated on each axis
\* through only a bounded number of contacts of any kind
C34_BoundedContactsPin ==
  /\ C34_BouncePinning
  /\ C34_PinnedOnYAfterContacts

\* both counters at 3 after three contacts, and update called since
C34_Witness ==
  /\ world.body[1].countCollisionsFix = Vec(BOUNCE_FIXES_LIMIT_X, BOUNCE_FIXES_LIMIT_Y)
  /\ world.body[1].force.x # 0
  /\ world.body[1].position = Vec(P(400), P(75))
  /\ ops > BOUNCE_FIXES_LIMIT_X

\* the engine's own contacts: a bounce body inside a static body has had a
\* contact in each of two calls of World.update, each with the correction
\* (0, 0) and each counted by the X counter only, and was moved along Y by
\* the second call
C34_SinksThroughStatic ==
  /\ ops = 2
  /\ world.body[1].type = BOUNCE
  /\ world.body[1].countCollisionsFix = Vec(2, 0)
  /\ Len(ret.steps[1].collisions) = 1
  /\ CorrectionOf(ret.steps[1], 1) = Vec(0, 0)
  /\ world.body[1].position.y > ret.from.body[1].position.y

\* the bodies the grid of the world W refers to, in grid.hash or grid.pairs
GridRefs(W) ==
  UNION { { W.hash[r][i] : i \in 1..Len(W.hash[r]) } : r \in DOMAIN W.hash }
    \cup UNION { {p.bodyA, p.bodyB} : p \in Pairs(W) }

\* the bullet b has a longOfLife and has flown it
Expired(b) == b.type = BULLET /\ b.longOfLife # False /\ b.long >= b.longOfLife

\* the isHit and overlap records of the sub-step s that name the body id
RecordsOf(s, id) ==
  { i \in 1..Len(s.sensors) :
      /\ s.sensors[i].kind \in {"isHit", "overlap"}
      /\ id \in {s.sensors[i].bodyA, s.sensors[i].bodyB} }

\* C35: a bullet with a longOfLife whose long has reached it in stage 1 of a
\* sub-step, in that sub-step or an earlier one, is out of world.bodies and
\* out of the grid from stage 2 of the sub-step on, and no isHit and no
\* overlap record of the sub-step names it
C35_ExpiredBulletPurged ==
  \A s \in Steps : \A id \in DOMAIN s.integrated.body :
    Expired(s.integrated.body[id]) =>
      /\ \A W \in {s.purged, s.indexed, s.detected, s.W} :
           /\ id \notin Registered(W)
           /\ id \notin GridRefs(W)
           /\ ~W.body[id].hasRegions
      /\ RecordsOf(s, id) = {}

\* a bullet that was in world.bodies and in the grid at the start of a
\* sub-step reaches its longOfLife in stage 1 of that sub-step
C35_Witness ==
  \E k \in 1..Len(ret.steps) : \E id \in DOMAIN StepStart(k).body :
    /\ id \in Registered(StepStart(k)) \cap GridRefs(StepStart(k))
    /\ ~Expired(StepStart(k).body[id])
    /\ Expired(ret.steps[k].integrated.body[id])

\* a bullet reaches its longOfLife in stage 1 of a sub-step with its swept
\* box over a body it could hit
C35_ExpiresOverTarget ==
  \E k \in 1..Len(ret.steps) : \E id \in DOMAIN StepStart(k).body :
    /\ id \in Registered(StepStart(k))
    /\ ~Expired(StepStart(k).body[id])
    /\ Expired(ret.steps[k].integrated.body[id])
    /\ \E t \in Registered(ret.steps[k].purged) :
         LET i == getIntersection(
                    bulletUpdateBounds(ret.steps[k].integrated.body[id]).bounds,
                    ret.steps[k].purged.body[t].bounds)
         IN  i.width >= 0 /\ i.height >= 0

\* the bodies purged in stage 2 of the sub-step s
Purged(s) ==
  { s.integrated.bodiesToRemove[i] : i \in 1..Len(s.integrated.bodiesToRemove) }

Spendable(W) ==
  { id \in DOMAIN W.body : W.body[id].type = BULLET /\ W.body[id].longOfLife = False }

\* the isHit records of the bullet id in a sensor list
HitsOf(sensors, id) ==
  { i \in 1..Len(sensors) : sensors[i].kind = "isHit" /\ sensors[i].bodyA = id }

\* the body id is queued for removal in the world W or out of world.bodies
Spent(W, id) == Contains(W.bodiesToRemove, id) \/ id \notin Registered(W)

\* the step is a call of World.update that ran a sub-step
UpdateCall ==
  /\ ops' = ops + 1
  /\ ret'.steps # <<>>
  /\ world = ret'.from
  /\ world' = ret'.W

\* C37: a call of World.update reports a hit of a bullet with no longOfLife
\* only if the bullet was in world.bodies and not queued when it was
\* called, it reports one hit of it and leaves it queued or purged
C37_HitSpendsBullet ==
  [][UpdateCall =>
       \A id \in Spendable(world) :
         HitsOf(ret'.sensors, id) # {} =>
           /\ ~Spent(world, id)
           /\ Cardinality(HitsOf(ret'.sensors, id)) = 1
           /\ Spent(world', id)]_vars

\* C37: a bullet queued or purged stays so
C37_SpentForGood ==
  [][\A id \in Spendable(world) : Spent(world, id) => Spent(world', id)]_vars

\* C37, within a call: a bullet with no longOfLife that is queued when a
\* sub-step starts is skipped by stage 1 (it is left as it was), is purged
\* in stage 2 and is in no isHit record of the sub-step
C37_QueuedBulletPurged ==
  \A k \in 1..Len(ret.steps) : \A id \in Spendable(StepStart(k)) :
    Contains(StepStart(k).bodiesToRemove, id) =>
      /\ ret.steps[k].integrated.body[id] = StepStart(k).body[id]
      /\ id \notin Registered(ret.steps[k].purged)
      /\ id \notin GridRefs(ret.steps[k].purged)
      /\ HitsOf(ret.steps[k].sensors, id) = {}

Naming(sensors, id) ==
  { i \in 1..Len(sensors) : id \in {sensors[i].bodyA, sensors[i].bodyB} }

\* the step is the call World.removeBody of the body id
RemoveBodyCall(id) ==
  /\ ops' = ops + 1
  /\ ret' = ret
  /\ world' = removeBody(world, id)

\* C38: World.removeBody(b) leaves b queued, and a body queued or out of
\* world.bodies stays so
C38_RemovedForGood ==
  [][\A id \in DOMAIN world.body :
       /\ RemoveBodyCall(id) => Contains(world'.bodiesToRemove, id)
       /\ Spent(world, id) => Spent(world', id)]_vars

\* C38: a call of World.update on a world in which the body b is queued or
\* out of world.bodies returns no record that names b, leaves the position
\* and the bounds of b in every stage of every sub-step as they were, and
\* has b out of world.bodies and of the grid from stage 2 of its first
\* sub-step on
C38_RemovedIsIgnored ==
  [][UpdateCall =>
       \A id \in DOMAIN world.body :
         Spent(world, id) =>
           /\ Naming(ret'.sensors, id) = {}
           /\ \A k \in 1..Len(ret'.steps) :
                \A W \in {ret'.steps[k].integrated, ret'.steps[k].purged,
                          ret'.steps[k].indexed, ret'.steps[k].detected,
                          ret'.steps[k].W} :
                  /\ W.body[id].position = world.body[id].position
                  /\ W.body[id].bounds = world.body[id].bounds
                  /\ W = ret'.steps[k].integrated
                       \/ (id \notin Registered(W) /\ id \notin GridRefs(W))]_vars

HashedIn(W, id) == { r \in DOMAIN W.hash : Contains(W.hash[r], id) }

\* the body id of the world W is registered with the grid under exactly the
\* regions that cover its bounds
IndexedByBounds(W, id) ==
  /\ W.body[id].hasRegions
  /\ W.body[id].regions = getRegions(W.body[id].bounds)
  /\ HashedIn(W, id) = { W.body[id].regions[i] : i \in 1..Len(W.body[id].regions) }
  /\ \A r \in HashedIn(W, id) :
       Cardinality({ i \in 1..Len(W.hash[r]) : W.hash[r][i] = id }) = 1

\* the bounds of the bodies a and b of the world W overlap or touch
BoundsMeet(W, a, b) ==
  /\ getIntersection(W.body[a].bounds, W.body[b].bounds).width >= 0
  /\ getIntersection(W.body[a].bounds, W.body[b].bounds).height >= 0

\* C39: when a sub-step returns, and already in its stage 4, every body of
\* world.bodies has as its regions the list getRegions(bounds) of its
\* bounds, and is in the list grid.hash[r] exactly for the regions r of
\* that list; two bodies whose bounds overlap and of which canCollide holds
\* have a pair in grid.pairs in stage 4
C39_GridFollowsBounds ==
  \A s \in Steps :
    /\ \A W \in {s.indexed, s.detected, s.W} : \A id \in Registered(W) : IndexedByBounds(W, id)
    /\ \A a \in Registered(s.indexed), b \in Registered(s.indexed) :
         (a # b /\ BoundsMeet(s.indexed, a, b)
            /\ canCollide(s.indexed.body[a], s.indexed.body[b]))
           => getPairId(a, b) \in PairKeys(s.indexed)

\* stage 3 of a sub-step moves a body that stage 1 has moved to other
\* regions, where its bounds overlap those of a body it can collide with
C39_Witness ==
  \E s \in Steps : \E a \in Registered(s.indexed), b \in Registered(s.indexed) :
    /\ s.purged.body[a].hasRegions
    /\ s.purged.body[a].regions # s.indexed.body[a].regions
    /\ a # b
    /\ BoundsMeet(s.indexed, a, b)
    /\ canCollide(s.indexed.body[a], s.indexed.body[b])
    /\ getPairId(a, b) \notin PairKeys(s.purged)

====
